---- MODULE Spec2Model ----
(***************************************************************************)
(* Model of the dashboard publisher of go-grafana-toolkit:                 *)
(* publisher/publisher.go (Publish, syncDashboards, syncDashboardsForStack,*)
(* stackByName, GenerateUniqueID), the publisher configuration and the     *)
(* parts of the client package the publisher drives.                       *)
(*                                                                         *)
(* Text values (uids, titles, suffixes) are sequences of one-character     *)
(* strings so that length and concatenation are those of the program.      *)
(* Folder UIDs are the path of titles under which the remote created the   *)
(* folder.  JSON values are records [t, v]: t the JSON type, v a sequence. *)
(***************************************************************************)
EXTENDS Integers, Sequences, FiniteSets, TLC

\* ------------------------------------------------------------ bounds ----
\* number of stacks the account enumerates (ListStacks)
MaxStacks == 2
\* number of remote calls the environment lets fail during one Publish run
MaxFaults == 2

\* Grafana's limit on a dashboard uid (publisher.go:412)
MaxUIDLen == 40

\* ------------------------------------------------------- text values ----
HexDigits == <<"0", "1", "2", "3", "4", "5", "6", "7", "8", "9", "a", "b", "c", "d", "e", "f">>

Alphabet == HexDigits \o <<"x", "T", "-", "p", "r">>

CharCode(c) == CHOOSE i \in 1..Len(Alphabet) : Alphabet[i] = c

\* a digest of the text s under the seed h, folded over the two halves of s
RECURSIVE Digest(_, _)
Digest(s, h) ==
  IF s = <<>> THEN h
  ELSE IF Len(s) = 1 THEN (h * 31 + CharCode(s[1]) + 7) % 65536
  ELSE (Digest(SubSeq(s, 1, Len(s) \div 2), h) * 37 + Digest(SubSeq(s, (Len(s) \div 2) + 1, Len(s)), h) * 101 + 1) % 65536

\* GenerateUniqueID: the first 40 hex digits of a digest of the input.  The
\* digest is a 16-bit stand-in for SHA-256: what the program relies on (a
\* fixed function of the input, 40 lower-case hex digits) is kept.
GenerateUniqueID(input) ==
  LET Hex(sum) == [i \in 1..MaxUIDLen |-> HexDigits[(((sum \div (1 + (i % 5))) + i) % 16) + 1]]
  IN  Hex(Digest(input, Len(input)))

Rep(c, n) == [i \in 1..n |-> c]

\* ------------------------------------------------------- JSON values ----
\* what encoding/json decodes into interface{}: string, number, nil, array
\* ([]interface{}) and object (map[string]interface{})
Str(s) == [t |-> "string", v |-> s]

Num(s) == [t |-> "number", v |-> s]

\* b is "true" or "false"
Bool(b) == [t |-> "bool", v |-> <<b>>]

Null == [t |-> "null", v |-> <<>>]

Arr(a) == [t |-> "array", v |-> a]

Obj(f) == [t |-> "object", v |-> f]

EmptyMap == [k \in {} |-> Null]

\* m[k] != nil on a Go map: the key is present and its value is not JSON null
NotNil(m, k) == k \in DOMAIN m /\ m[k].t # "null"

\* v, ok := m[k].(string) and its like: ok is IsA(m, k, "string")
IsA(m, k, type) == k \in DOMAIN m /\ m[k].t = type

\* delete(m, k)
Delete(m, k) == [x \in DOMAIN m \ {k} |-> m[x]]

\* m[k] = v
Put(m, k, v) == [x \in DOMAIN m \cup {k} |-> IF x = k THEN v ELSE m[x]]

\* iface == "literal": an interface value equals a string constant
IsWord(m, k, word) == IsA(m, k, "string") /\ m[k].v = <<word>>

\* ------------------------------------------------------------ stacks ----
\* grafana.Stack, by the fields the publisher and the client read
Stack(slug, id) == [Slug |-> slug, StackID |-> id]

\* grafana.Stack{}: what stackByName returns when no slug matches
ZeroStack == Stack("", 0)

SlugOf == <<"a", "b", "c", "d">>

\* the account's stacks: ListStacks returns the first n of them
StackPool(n) == [i \in 1..n |-> Stack(SlugOf[i], i)]

\* ----------------------------------------------- one attempt's state ----
\* The state one syncDashboardsForStack call threads through its steps:
\*   rem    the target stack's remote state: its folders, its dashboards and
\*          the service accounts that exist on it
\*   n      HTTP requests issued so far by this attempt
\*   reqs   those requests, each with whether it succeeded (ok), whether
\*          the environment made it fail (fault) and, for a folder listing,
\*          the folders of the title looked for that it showed (answer)
\*   calls  the client methods the publisher called, each with whether it
\*          returned no error (ok), what it returned with it (ret) and the
\*          number of requests issued when it returned (upto)
\*   ups    the Dashboard records handed to UploadDashboard, each with the
\*          folder that was resolved for the attempt
\*   out    "" while running, "error" once an error is returned, "panic"
\*          once a failed type assertion has ended the goroutine
\* F is the set of request numbers (within the attempt) that the environment
\* makes fail.
\*   ret    what the last client method returned (a folder, an owner id)
\*   files  the regular files the walk callback handled, in order: the file,
\*          the client calls made for it (those after `from` up to `to`) and
\*          whether the callback returned nil
NewAttempt(rem) == [rem |-> rem, n |-> 0, reqs |-> <<>>, calls |-> <<>>, ups |-> <<>>, files |-> <<>>, out |-> "", ret |-> <<>>]

\* an empty remote stack; lag is the number of listings that do not show a
\* folder yet after it was created; asked is the log of the create-folder
\* requests issued to the stack so far: those that succeeded and, when audit
\* is set, those that failed
NoRemote == [folders |-> {}, dashboards |-> {}, sa |-> 0, lag |-> 0, asked |-> <<>>, audit |-> FALSE]

\* one HTTP request: it succeeds when the environment lets it and the remote
\* accepts it
Request(st, F, op, arg, accepted) == [st EXCEPT !.n = @ + 1, !.reqs = Append(@, [op |-> op, arg |-> arg, ok |-> (st.n + 1 \notin F) /\ accepted, fault |-> st.n + 1 \in F, answer |-> {}])]

ReqOk(st) == st.reqs[Len(st.reqs)].ok

\* the return of a client method, as the publisher sees it: err == nil, the
\* value returned with it (<<>> when there is none) and how many requests the
\* attempt had issued by then
Returned(st, op, arg, ok, ret) == [st EXCEPT !.calls = Append(@, [op |-> op, arg |-> arg, ok |-> ok, ret |-> ret, upto |-> st.n]), !.ret = ret]

\* the return of a client method that returns an error only
Called(st, op, arg, ok) == [st EXCEPT !.calls = Append(@, [op |-> op, arg |-> arg, ok |-> ok, ret |-> <<>>, upto |-> st.n])]

CallOk(st) == st.calls[Len(st.calls)].ok

Fail(st) == [st EXCEPT !.out = "error"]

Panic(st) == [st EXCEPT !.out = "panic"]

\* ------------------------------------------------ the client package ----
\* number of times EnsureFolder's backoff loop polls for the created folder
\* before its one-minute budget is spent
MaxPolls == 2

\* CloudClient.newStackClient: a service account, then a token for it
NewStackClient(st, F, stack, known) ==
  LET arg == <<<<stack.Slug>>>>
      WithToken(tok) == Called(tok, "NewStackClient", arg, ReqOk(tok))
      WithAccount(sa) ==
        IF ~ReqOk(sa) THEN Called(sa, "NewStackClient", arg, FALSE)
        ELSE WithToken(Request([sa EXCEPT !.rem.sa = @ + 1], F, "CreateToken", arg, TRUE))
  IN  WithAccount(Request(st, F, "CreateServiceAccount", arg, known))

\* a release that also removes the stack's dashboards when the attempt has
\* failed (C33 must not survive it)
CleanupRollback(st, F) ==
  LET Deleted(del) == Called(IF ReqOk(del) THEN [del EXCEPT !.rem.sa = @ - 1] ELSE del, "Cleanup", <<>>, ReqOk(del))
  IN  Deleted(Request(IF st.out = "error" THEN [st EXCEPT !.rem.dashboards = {}] ELSE st, F, "DeleteServiceAccount", <<>>, TRUE))

\* a release that is skipped when the attempt has failed (C27 must not
\* survive it)
CleanupOnSuccess(st, F) ==
  LET Deleted(del) == Called(IF ReqOk(del) THEN [del EXCEPT !.rem.sa = @ - 1] ELSE del, "Cleanup", <<>>, ReqOk(del))
  IN  IF st.out # "" THEN st ELSE Deleted(Request(st, F, "DeleteServiceAccount", <<>>, TRUE))

\* StackClient.Cleanup: delete the session's service account
Cleanup(st, F) ==
  LET Deleted(del) == Called(IF ReqOk(del) THEN [del EXCEPT !.rem.sa = @ - 1] ELSE del, "Cleanup", <<>>, ReqOk(del))
  IN  Deleted(Request(st, F, "DeleteServiceAccount", <<>>, TRUE))

\* a *Folder: <<>> is nil, <<f>> points to f
NilFolder == <<>>

ParentUID(rootFolder) == IF rootFolder = NilFolder THEN <<>> ELSE rootFolder[1].UID

\* a listing that shows the folders of the top level only (C39 must not
\* survive it)
ListedAtTop(rem, parent, title) == {f \in rem.folders : parent = <<>> /\ f.parent = parent /\ f.title = title}

\* what the folder listing of a parent holds under a title
Listed(rem, parent, title) == {f \in rem.folders : f.parent = parent /\ f.title = title}

FolderOf(f) == <<[UID |-> f.uid, Title |-> f.title]>>

\* StackClient.GetFolder (dashboard.go:147-174): list the parent scope and
\* look for the title; hidden: the remote does not show the folder yet
GetFolder(st, F, parent, title, hidden) ==
  LET Seen(got) == [got EXCEPT !.reqs[Len(got.reqs)].answer = IF ReqOk(got) /\ ~hidden THEN Listed(st.rem, parent, title) ELSE {}]
  IN  Seen(Request(st, F, "GetFolders", <<parent>>, TRUE))

\* what the latest listing showed
Answer(st) == st.reqs[Len(st.reqs)].answer

\* the backoff.Retry loop of EnsureFolder: list the parent until the folder
\* shows up; st.ret is <<TRUE>> when it did
RECURSIVE AwaitFolder(_, _, _, _, _)
AwaitFolder(st, F, parent, title, k) ==
  LET Polled(got) ==
        IF ReqOk(got) /\ Answer(got) # {} THEN [got EXCEPT !.ret = <<TRUE>>]
        ELSE IF k < MaxPolls THEN AwaitFolder(got, F, parent, title, k + 1)
        ELSE [got EXCEPT !.ret = <<FALSE>>]
  IN  Polled(GetFolder(st, F, parent, title, k <= st.rem.lag))

\* StackClient.EnsureFolder (with GetFolder inlined): fetch or create
EnsureFolder(st, F, rootFolder, folderName) ==
  LET parent == ParentUID(rootFolder)
      arg == <<parent, folderName>>
      new == [parent |-> parent, title |-> folderName, uid |-> parent \o <<"|">> \o folderName]
      Return(end, ok, folder) == Returned(end, "EnsureFolder", arg, ok, folder)
      Awaited(seen) == IF seen.ret = <<FALSE>> THEN Return(seen, FALSE, NilFolder) ELSE Return(seen, TRUE, FolderOf(new))
      Created(post) ==
        IF ~ReqOk(post) THEN Return(post, FALSE, NilFolder)
        ELSE Awaited(AwaitFolder([post EXCEPT !.rem.folders = @ \cup {new}], F, parent, folderName, 1))
      Asked(post) == IF ReqOk(post) \/ post.rem.audit THEN [post EXCEPT !.rem.asked = Append(@, [parent |-> parent, title |-> folderName, ok |-> ReqOk(post)])] ELSE post
      Fetched(got) ==
        IF ~ReqOk(got) THEN Return(got, FALSE, NilFolder)
        ELSE IF Answer(got) # {} THEN Return(got, TRUE, FolderOf(CHOOSE f \in Answer(got) : TRUE))
        ELSE Created(Asked(Request(got, F, "CreateFolder", arg, TRUE)))
  IN  Fetched(GetFolder(st, F, parent, folderName, FALSE))

\* the owner (User) of a stack's logs datasource
OwnerOf(stack) == <<"user-", stack.Slug>>

\* StackClient.GetDataSource
GetDataSource(st, F, name, stack) ==
  LET Got(got) == Returned(got, "GetDataSource", <<name>>, ReqOk(got), IF ReqOk(got) THEN OwnerOf(stack) ELSE <<>>)
  IN  Got(Request(st, F, "GetDataSourceByName", <<name>>, TRUE))

\* StackClient.UploadDashboard: create or overwrite the dashboard of that uid
UploadDashboard(st, F, dashboard) ==
  LET saved == {d \in st.rem.dashboards : d.uid # dashboard.UID} \cup {[uid |-> dashboard.UID, folder |-> dashboard.FolderUID]}
      Posted(post) == Called(IF ReqOk(post) THEN [post EXCEPT !.rem.dashboards = saved] ELSE post, "UploadDashboard", <<dashboard.UID>>, ReqOk(post))
  IN  Posted(Request(st, F, "PostDashboard", <<dashboard.UID>>, TRUE))

HasDashboard(rem, uid) == \E d \in rem.dashboards : d.uid = uid

\* StackClient.GetDashboard
GetDashboard(st, F, uid) ==
  LET Got(got) == Called(got, "GetDashboard", <<uid>>, ReqOk(got))
  IN  Got(Request(st, F, "GetDashboardByUID", <<uid>>, HasDashboard(st.rem, uid)))

\* StackClient.DeleteDashboard
DeleteDashboard(st, F, uid) ==
  LET Deleted(del) == Called(IF ReqOk(del) THEN [del EXCEPT !.rem.dashboards = {d \in @ : d.uid # uid}] ELSE del, "DeleteDashboard", <<uid>>, ReqOk(del))
  IN  Deleted(Request(st, F, "DeleteDashboardByUID", <<uid>>, HasDashboard(st.rem, uid)))

\* --------------------------------------------- publisher: one document --
\* strings.Split(s, "/"): the segments between the "/" letters of s
RECURSIVE SplitAcc(_, _, _)
SplitAcc(s, cur, acc) ==
  IF s = <<>> THEN Append(acc, cur)
  ELSE IF Head(s) = "/" THEN SplitAcc(Tail(s), <<>>, Append(acc, cur))
  ELSE SplitAcc(Tail(s), Append(cur, Head(s)), acc)

Split(s) == SplitAcc(s, <<>>, <<>>)

\* fmt.Sprintf("grafanacloud-%s-<kind>", stack.Slug)
DatasourceName(stack, kind) == <<"grafanacloud-", stack.Slug, kind>>

Current(text, value) == Obj([selected |-> Bool("false"), text |-> Str(text), value |-> Str(value)])

\* a table in which the log-usage variable takes its display text as value
\* (C22 must not survive it)
RewriteDatasourceSame(parameter, stack) ==
  IF ~IsWord(parameter, "type", "datasource") THEN parameter
  ELSE IF IsWord(parameter, "name", "PROMPRO") \/ IsWord(parameter, "name", "P1EUW1")
    THEN Put(parameter, "current", Current(DatasourceName(stack, "-prom"), DatasourceName(stack, "-prom")))
  ELSE IF IsWord(parameter, "name", "LOGSPRO")
    THEN Put(parameter, "current", Current(DatasourceName(stack, "-logs"), DatasourceName(stack, "-logs")))
  ELSE IF IsWord(parameter, "name", "LOGUSAGE")
    THEN Put(parameter, "current", Current(DatasourceName(stack, "-usage-insights"), DatasourceName(stack, "-usage-insights")))
  ELSE parameter

\* publisher.go:342-366, the datasource variables
RewriteDatasource(parameter, stack) ==
  IF ~IsWord(parameter, "type", "datasource") THEN parameter
  ELSE IF IsWord(parameter, "name", "PROMPRO") \/ IsWord(parameter, "name", "P1EUW1")
    THEN Put(parameter, "current", Current(DatasourceName(stack, "-prom"), DatasourceName(stack, "-prom")))
  ELSE IF IsWord(parameter, "name", "LOGSPRO")
    THEN Put(parameter, "current", Current(DatasourceName(stack, "-logs"), DatasourceName(stack, "-logs")))
  ELSE IF IsWord(parameter, "name", "LOGUSAGE")
    THEN Put(parameter, "current", Current(DatasourceName(stack, "-usage-insights"), <<"grafanacloud-usage-insights">>))
  ELSE parameter

\* a rewrite that leaves the query of the variable as it was (C23 must not
\* survive it)
RewriteStackIDOnly(parameter, stackid) ==
  Put(Put(parameter, "current", Current(stackid, stackid)), "options", Arr(<<Obj([selected |-> Bool("true"), text |-> Str(stackid), value |-> Str(stackid)])>>))

\* publisher.go:376-390, the STACKID variable once its owner id is known
RewriteStackID(parameter, stackid) ==
  Put(Put(Put(parameter, "current", Current(stackid, stackid)), "options", Arr(<<Obj([selected |-> Bool("true"), text |-> Str(stackid), value |-> Str(stackid)])>>)), "query", Str(stackid))

\* publisher.go:340-393, the loop over templating.list from entry i on;
\* st.ret is the rewritten list when the loop ends
RECURSIVE RewriteParameters(_, _, _, _, _)
RewriteParameters(st, F, parameters, i, stack) ==
  LET Set(parameter) == [parameters EXCEPT ![i] = Obj(parameter)]
      Looked(got, parameter) ==
        IF ~CallOk(got) THEN Fail(got)
        ELSE RewriteParameters(got, F, Set(RewriteStackID(parameter, got.ret)), i + 1, stack)
      Rewritten(parameter) ==
        IF IsWord(parameter, "type", "custom") /\ IsWord(parameter, "name", "STACKID")
        THEN Looked(GetDataSource(st, F, DatasourceName(stack, "-logs"), stack), parameter)
        ELSE RewriteParameters(st, F, Set(parameter), i + 1, stack)
  IN  IF i > Len(parameters) THEN [st EXCEPT !.ret = parameters]
      ELSE IF parameters[i].t # "object" THEN Panic(st)
      ELSE Rewritten(RewriteDatasource(parameters[i].v, stack))

\* publisher.go:335-394: st.ret is the dashboard with its templating rewritten
RewriteTemplating(st, F, dash, stack) ==
  LET Listed2(done) ==
        IF done.out # "" THEN done
        ELSE [done EXCEPT !.ret = Put(dash, "templating", Obj(Put(dash["templating"].v, "list", Arr(done.ret))))]
  IN  IF ~NotNil(dash, "templating") THEN [st EXCEPT !.ret = dash]
      ELSE IF ~IsA(dash, "templating", "object") THEN Panic(st)
      ELSE IF ~IsA(dash["templating"].v, "list", "array") THEN Panic(st)
      ELSE Listed2(RewriteParameters(st, F, dash["templating"].v["list"].v, 1, stack))

\* an identifier that also depends on whether the document has tags (C13
\* must not survive it)
BaseUIDTagged(dash) ==
  IF IsA(dash, "uid", "string") THEN <<dash["uid"].v>>
  ELSE IF IsA(dash, "title", "string") THEN <<GenerateUniqueID(dash["title"].v \o (IF "tags" \in DOMAIN dash THEN <<"T">> ELSE <<>>))>>
  ELSE <<>>

\* publisher.go:399-406: the document's uid, else a hash of its title;
\* <<>> stands for the error return when neither is a string
BaseUID(dash) ==
  IF IsA(dash, "uid", "string") THEN <<dash["uid"].v>>
  ELSE IF IsA(dash, "title", "string") THEN <<GenerateUniqueID(dash["title"].v)>>
  ELSE <<>>

\* a limit that cuts an over-long identifier instead of hashing it (C12 must
\* not survive it)
FinalUIDCut(uid, cfg) ==
  LET Limited(suffixed) == IF Len(suffixed) > MaxUIDLen THEN SubSeq(suffixed, 1, MaxUIDLen) ELSE suffixed
  IN  Limited(IF cfg.RootFolder # <<>> THEN uid \o cfg.IDSuffix ELSE uid)

\* publisher.go:408-414: the suffix, then the 40-character limit
FinalUID(uid, cfg) ==
  LET Limited(suffixed) == IF Len(suffixed) > MaxUIDLen THEN GenerateUniqueID(suffixed) ELSE suffixed
  IN  Limited(IF cfg.RootFolder # <<>> THEN uid \o cfg.IDSuffix ELSE uid)

RECURSIVE TagValues(_)
TagValues(tags) == IF tags = <<>> THEN <<>> ELSE <<Str(<<Head(tags)>>)>> \o TagValues(Tail(tags))

\* the values of tags that the list old does not hold yet
RECURSIVE NewTagValues(_, _)
NewTagValues(old, tags) ==
  IF tags = <<>> THEN <<>>
  ELSE IF \E j \in 1..Len(old) : old[j] = Str(<<Head(tags)>>) THEN NewTagValues(old, Tail(tags))
  ELSE <<Str(<<Head(tags)>>)>> \o NewTagValues(Append(old, Str(<<Head(tags)>>)), Tail(tags))

\* a tagging that adds a configured tag once only (C24 must not survive it)
WithTagsOnce(dash, cfg) ==
  IF cfg.Tags = <<>> THEN dash
  ELSE Put(dash, "tags", Arr((IF IsA(dash, "tags", "array") THEN dash["tags"].v ELSE <<>>) \o NewTagValues(IF IsA(dash, "tags", "array") THEN dash["tags"].v ELSE <<>>, cfg.Tags[1])))

\* publisher.go:417-426: cfg.Tags is <<>> for a nil slice, <<list>> otherwise
WithTags(dash, cfg) ==
  IF cfg.Tags = <<>> THEN dash
  ELSE Put(dash, "tags", Arr((IF IsA(dash, "tags", "array") THEN dash["tags"].v ELSE <<>>) \o TagValues(cfg.Tags[1])))

\* publisher.go:331-333
LinkFolder(dash, folder) == Put(Delete(dash, "folderId"), "folderUid", Str(folder.UID))

\* a transformation that drops the version with the numeric id (C35 must not
\* survive it)
DropIDAndVersion(dash) == Delete(Delete(dash, "id"), "version")

\* a transformation that leaves the numeric id in place (C9 must not survive it)
KeepID(dash) == dash

\* publisher.go:397
DropID(dash) == Delete(dash, "id")

\* publisher.go:428-432: the record handed to UploadDashboard
DashboardRecord(dash, uid, folder) == [FolderUID |-> folder.UID, UID |-> uid, Dashboard |-> dash]

\* publisher.go:310-436, the ".json" case of the walk callback
SyncJSON(st, F, file, folder, stack, cfg) ==
  LET Sent(sent, record) == [IF CallOk(sent) THEN sent ELSE Fail(sent) EXCEPT !.ups = Append(@, [record |-> record, folder |-> folder, file |-> file.name, ok |-> CallOk(sent)])]
      Upload(from, record) == Sent(UploadDashboard(from, F, record), record)
      Identified(from, dash, uid) == Upload(from, DashboardRecord(WithTags(Put(dash, "uid", Str(uid)), cfg), uid, folder))
      Stripped(from, dash, base) == IF base = <<>> THEN Fail(from) ELSE Identified(from, dash, FinalUID(base[1], cfg))
      Templated(templ) == IF templ.out # "" THEN templ ELSE Stripped(templ, DropID(templ.ret), BaseUID(DropID(templ.ret)))
  IN  IF file.body.t # "object" THEN Fail(st)
      ELSE IF ~NotNil(file.body.v, "dashboard") THEN Fail(st)
      ELSE IF file.body.v["dashboard"].t # "object" THEN Panic(st)
      ELSE Templated(RewriteTemplating(st, F, LinkFolder(file.body.v["dashboard"].v, folder), stack))

\* a ".deleted" case that deletes whatever GetDashboard returned (C17 must not
\* survive it)
SyncDeletedBlind(st, F, file) ==
  LET Deleted(del) == IF CallOk(del) THEN del ELSE Fail(del)
      Got(got, uid) == Deleted(DeleteDashboard(got, F, uid))
      Named(dash) ==
        IF ~NotNil(dash, "uid") THEN Fail(st)
        ELSE IF ~IsA(dash, "uid", "string") THEN Fail(st)
        ELSE Got(GetDashboard(st, F, dash["uid"].v), dash["uid"].v)
  IN  IF file.body.t # "object" THEN Fail(st)
      ELSE IF ~NotNil(file.body.v, "dashboard") THEN Fail(st)
      ELSE IF file.body.v["dashboard"].t # "object" THEN Panic(st)
      ELSE Named(file.body.v["dashboard"].v)

\* publisher.go:438-468, the ".deleted" case
SyncDeleted(st, F, file) ==
  LET Deleted(del) == IF CallOk(del) THEN del ELSE Fail(del)
      Got(got, uid) == IF ~CallOk(got) THEN got ELSE Deleted(DeleteDashboard(got, F, uid))
      Named(dash) ==
        IF ~NotNil(dash, "uid") THEN Fail(st)
        ELSE IF ~IsA(dash, "uid", "string") THEN Fail(st)
        ELSE Got(GetDashboard(st, F, dash["uid"].v), dash["uid"].v)
  IN  IF file.body.t # "object" THEN Fail(st)
      ELSE IF ~NotNil(file.body.v, "dashboard") THEN Fail(st)
      ELSE IF file.body.v["dashboard"].t # "object" THEN Panic(st)
      ELSE Named(file.body.v["dashboard"].v)

\* a callback that passes over a file of another extension (C21 must not
\* survive it)
SyncFileLenient(st, F, file, folder, stack, cfg) ==
  IF file.ext = ".json" THEN SyncJSON(st, F, file, folder, stack, cfg)
  ELSE IF file.ext = ".deleted" THEN SyncDeleted(st, F, file)
  ELSE st

\* the walk callback for one regular file (publisher.go:309-473)
SyncFile(st, F, file, folder, stack, cfg) ==
  IF file.ext = ".json" THEN SyncJSON(st, F, file, folder, stack, cfg)
  ELSE IF file.ext = ".deleted" THEN SyncDeleted(st, F, file)
  ELSE Fail(st)

\* the walk callback (publisher.go:295-473): a directory is passed over, a
\* regular file is handled by its extension
Visit(st, F, file, folder, stack, cfg) ==
  LET Noted(after) == [after EXCEPT !.files = Append(@, [file |-> file.name, from |-> Len(st.calls), to |-> Len(after.calls), ok |-> after.out = ""])]
  IN  IF file.dir THEN st ELSE Noted(SyncFile(st, F, file, folder, stack, cfg))

\* a walk that goes on after a file has failed (C30 must not survive it)
RECURSIVE WalkOn(_, _, _, _, _, _)
WalkOn(st, F, files, folder, stack, cfg) ==
  IF files = <<>> \/ st.out = "panic" THEN st
  ELSE WalkOn(Visit(st, F, Head(files), folder, stack, cfg), F, Tail(files), folder, stack, cfg)

\* afero.Walk over what lies under the local folder, directories and regular
\* files, in walk order: the first error (or panic) ends the walk
RECURSIVE Walk(_, _, _, _, _, _)
Walk(st, F, files, folder, stack, cfg) ==
  IF files = <<>> \/ st.out # "" THEN st
  ELSE Walk(Visit(st, F, Head(files), folder, stack, cfg), F, Tail(files), folder, stack, cfg)

\* ------------------------------------- publisher: one stack, one binding --
\* a resolution that ensures every segment at the top level (C25 must not
\* survive it)
RECURSIVE EnsureRootFoldersFlat(_, _, _, _)
EnsureRootFoldersFlat(st, F, segments, rootFolder) ==
  LET Made(made) == IF ~CallOk(made) THEN Fail(made) ELSE EnsureRootFoldersFlat(made, F, Tail(segments), made.ret)
  IN  IF segments = <<>> THEN [st EXCEPT !.ret = rootFolder]
      ELSE Made(EnsureFolder(st, F, NilFolder, Head(segments)))

\* publisher.go:280-287: the root path, one EnsureFolder per segment, each
\* under the folder the previous one returned; st.ret is the last folder
RECURSIVE EnsureRootFolders(_, _, _, _)
EnsureRootFolders(st, F, segments, rootFolder) ==
  LET Made(made) == IF ~CallOk(made) THEN Fail(made) ELSE EnsureRootFolders(made, F, Tail(segments), made.ret)
  IN  IF segments = <<>> THEN [st EXCEPT !.ret = rootFolder]
      ELSE Made(EnsureFolder(st, F, rootFolder, Head(segments)))

\* an attempt that releases its session as soon as the folders are resolved,
\* before the walk (C37 must not survive it)
SyncDashboardsForStackEarly(rem, F, stack, known, files, grafanaFolder, cfg) ==
  LET Released(dest, folder) == Walk(Cleanup(dest, F), F, files, folder, stack, cfg)
      Resolved(dest) == IF ~CallOk(dest) THEN Cleanup(Fail(dest), F) ELSE Released(dest, dest.ret[1])
      Rooted(root) == IF root.out # "" THEN Cleanup(root, F) ELSE Resolved(EnsureFolder(root, F, root.ret, grafanaFolder))
      Body(sc) == IF cfg.RootFolder # <<>> THEN Rooted(EnsureRootFolders(sc, F, Split(cfg.RootFolder), NilFolder)) ELSE Rooted([sc EXCEPT !.ret = NilFolder])
      Session(sc) == IF ~CallOk(sc) THEN Fail(sc) ELSE Body(sc)
  IN  Session(NewStackClient(NewAttempt(rem), F, stack, known))

\* Publisher.syncDashboardsForStack (publisher.go:268-481).  known: the remote
\* has a stack of that id; files: what lies under localFolder in walk
\* order.  Cleanup is deferred once the session exists, so it runs on every
\* way out, and what it returns is dropped.
SyncDashboardsForStack(rem, F, stack, known, files, grafanaFolder, cfg) ==
  LET Resolved(dest) == IF ~CallOk(dest) THEN Fail(dest) ELSE Walk(dest, F, files, dest.ret[1], stack, cfg)
      Rooted(root) == IF root.out # "" THEN root ELSE Resolved(EnsureFolder(root, F, root.ret, grafanaFolder))
      Body(sc) == IF cfg.RootFolder # <<>> THEN Rooted(EnsureRootFolders(sc, F, Split(cfg.RootFolder), NilFolder)) ELSE Rooted([sc EXCEPT !.ret = NilFolder])
      Session(sc) == IF ~CallOk(sc) THEN Fail(sc) ELSE Cleanup(Body(sc), F)
  IN  Session(NewStackClient(NewAttempt(rem), F, stack, known))

\* ------------------------------------------------- publisher: stacks ----
\* a search that falls back on the first stack (C32 must not survive it)
stackByNameOrFirst(stacks, name) ==
  IF \E k \in 1..Len(stacks) : stacks[k].Slug = name THEN stacks[CHOOSE k \in 1..Len(stacks) : stacks[k].Slug = name]
  ELSE IF stacks = <<>> THEN ZeroStack ELSE stacks[1]

\* stackByName (publisher.go:256-263)
RECURSIVE stackByName(_, _)
stackByName(stacks, name) ==
  IF stacks = <<>> THEN ZeroStack
  ELSE IF Head(stacks).Slug = name THEN Head(stacks)
  ELSE stackByName(Tail(stacks), name)

\* PublisherConfig.initExclusionsMap / ExclusionsMap: the keys of the map
ExclusionsMap(exclusions) == {exclusions[i] : i \in 1..Len(exclusions)}

\* a selection that ignores the exclusion map (C6 must not survive it)
Unfiltered(stacks, excluded) == stacks

\* publisher.go:148-159: the stacks whose slug is not a key of the map
RECURSIVE Candidates(_, _)
Candidates(stacks, excluded) ==
  IF stacks = <<>> THEN <<>>
  ELSE IF Head(stacks).Slug \notin excluded THEN <<Head(stacks)>> \o Candidates(Tail(stacks), excluded)
  ELSE Candidates(Tail(stacks), excluded)

\* a selection that gives the common bindings every candidate in either mode
\* (C7 must not survive it)
CommonToAll(stacks, config, syncAll) == Candidates(stacks, ExclusionsMap(config.Exclusions))

\* publisher.go:159-169: the targets of the common bindings
CommonTargets(stacks, config, syncAll) ==
  IF syncAll THEN Candidates(stacks, ExclusionsMap(config.Exclusions))
  ELSE <<stackByName(Candidates(stacks, ExclusionsMap(config.Exclusions)), config.TestStack)>>

\* a selection that gives the custom bindings every candidate in all-stacks
\* mode (C8 must not survive it)
CustomToAll(stacks, config, syncAll) ==
  IF syncAll THEN Candidates(stacks, ExclusionsMap(config.Exclusions))
  ELSE <<stackByName(Candidates(stacks, ExclusionsMap(config.Exclusions)), config.TestStack)>>

\* publisher.go:160-169: the targets of the custom bindings
CustomTargets(stacks, config, syncAll) ==
  IF syncAll THEN <<stackByName(Candidates(stacks, ExclusionsMap(config.Exclusions)), config.CustomStack)>>
  ELSE <<stackByName(Candidates(stacks, ExclusionsMap(config.Exclusions)), config.TestStack)>>

\* ------------------------------------------------------------- state ----
\* config        p.config, the PublisherConfig
\* env           what the run finds around it: token (GRAFANA_CLOUD_TOKEN is
\*               set), stacks (what ListStacks returns), fs (local folder ->
\*               [stat, files]), seeded (the dashboards every stack holds
\*               when the run starts), lag (the number of listings in which
\*               a stack does not show a new folder yet), perIteration (the build gives each iteration
\*               of a range loop its own variable: Go 1.22 and later; before,
\*               one variable serves all iterations)
\* syncAllStacks the argument of Publish
\* pc            where Publish stands: "start", "bindings" (between two
\*               bindings), "first" (the loop of publisher.go:224), "retry"
\*               (the loop of publisher.go:243), "done", "panic"
\* result        what Publish returned: kind "" (running), "nil", "error",
\*               and the stack the error names
\* stacksWithCommonDashboards, stacksWithCustomDashboards  the target lists
\* phase, b      the binding at hand: "custom" or "common", and its index
\* i             the index of the loop at hand
\* failedStacks  the failed list: entries [stack: the variable &stack points
\*               to, err]
\* stackVar      the loop variables `stack` of publisher.go:224, by cell
\* remote        slug -> the stack's remote state
\* faults        how many more requests the environment may make fail
\* attempts      every syncDashboardsForStack call so far, in order: its
\*               binding, pass and stack, what it returned (out), where it
\*               returned (at) and the files it handled
\* uploads       every UploadDashboard call so far, in order
\* last          the requests, client calls and files of the latest attempt
\* steps         what Publish and syncDashboards did themselves, in order: the
\*               ListStacks call, the Stat of a local folder
\* earlier       the Publish calls made before the one at hand, in order:
\*               what each left on the stacks (remote) and its uploads;
\*               attempts, uploads, last and steps are of the call at hand
VARIABLES config, env, syncAllStacks, pc, result, stacksWithCommonDashboards, stacksWithCustomDashboards, phase, b, i, failedStacks, stackVar, remote, faults, attempts, uploads, last, steps, earlier

vars == <<config, env, syncAllStacks, pc, result, stacksWithCommonDashboards, stacksWithCustomDashboards, phase, b, i, failedStacks, stackVar, remote, faults, attempts, uploads, last, steps, earlier>>

setup == <<config, env, syncAllStacks, earlier>>

targets == <<stacksWithCommonDashboards, stacksWithCustomDashboards>>

history == <<remote, attempts, uploads, last>>

Range(s) == {s[k] : k \in 1..Len(s)}

\* the binding list and the target list of the phase at hand
Bindings == IF phase = "custom" THEN config.CustomDashboards ELSE config.CommonDashboards

Targets == IF phase = "custom" THEN stacksWithCustomDashboards ELSE stacksWithCommonDashboards

\* the sets of at most k elements of S
RECURSIVE UpTo(_, _)
UpTo(S, k) == IF k = 0 THEN {{}} ELSE LET smaller == UpTo(S, k - 1) IN smaller \cup {p \cup {x} : p \in smaller, x \in S}

NoResult == [kind |-> "", stack |-> ""]

\* the log of Publish's own steps after one more, made for the binding at hand
Step(op, arg) == Append(steps, [op |-> op, phase |-> phase, b |-> b, arg |-> arg])

\* a Publish that does not look for the token (C14 must not survive it)
TokenIgnored(e) == TRUE

\* os.LookupEnv("GRAFANA_CLOUD_TOKEN") of publisher.go:130
HasToken(e) == e.token

\* ----------------------------------------------------------- Publish ----
\* publisher.go:130-133: no token, no run
PublishWithoutToken ==
  /\ pc = "start" /\ ~HasToken(env)
  /\ pc' = "done" /\ result' = [kind |-> "nil", stack |-> ""]
  /\ UNCHANGED <<setup, targets, phase, b, i, failedStacks, stackVar, faults, history, steps>>

\* publisher.go:143-146: ListStacks fails
ListStacksFails ==
  /\ pc = "start" /\ HasToken(env) /\ faults > 0
  /\ pc' = "done" /\ result' = [kind |-> "error", stack |-> ""]
  /\ faults' = faults - 1
  /\ steps' = Step("ListStacks", "")
  /\ UNCHANGED <<setup, targets, phase, b, i, failedStacks, stackVar, history>>

\* publisher.go:143-169: the stacks, the exclusions, the two target lists
SelectStacks ==
  /\ pc = "start" /\ HasToken(env)
  /\ stacksWithCommonDashboards' = CommonTargets(env.stacks, config, syncAllStacks)
  /\ stacksWithCustomDashboards' = CustomTargets(env.stacks, config, syncAllStacks)
  /\ pc' = "bindings" /\ phase' = "custom" /\ b' = 1
  /\ steps' = Step("ListStacks", "")
  /\ UNCHANGED <<setup, result, i, failedStacks, stackVar, faults, history>>

\* publisher.go:171-182: the custom bindings are done, the common ones start
NextPhase ==
  /\ pc = "bindings" /\ phase = "custom" /\ b > Len(Bindings)
  /\ phase' = "common" /\ b' = 1
  /\ UNCHANGED <<setup, pc, result, targets, i, failedStacks, stackVar, faults, history, steps>>

\* publisher.go:193
PublishReturns ==
  /\ pc = "bindings" /\ phase = "common" /\ b > Len(Bindings)
  /\ pc' = "done" /\ result' = [kind |-> "nil", stack |-> ""]
  /\ UNCHANGED <<setup, targets, phase, b, i, failedStacks, stackVar, faults, history, steps>>

\* how often the caller calls Publish, one call after the other
Runs(e) == IF "runs" \in DOMAIN e THEN e.runs ELSE 1

\* the stacks of the run log the create-folder requests that fail too
Audit(e) == "audit" \in DOMAIN e /\ e.audit

\* the caller calls Publish again, with the same publisher, after a call
\* that returned nil
PublishAgain ==
  /\ pc = "done" /\ result.kind = "nil" /\ Len(earlier) + 1 < Runs(env)
  /\ earlier' = Append(earlier, [remote |-> remote, uploads |-> uploads])
  /\ pc' = "start" /\ result' = NoResult
  /\ stacksWithCommonDashboards' = <<>> /\ stacksWithCustomDashboards' = <<>>
  /\ phase' = "custom" /\ b' = 1 /\ i' = 1
  /\ failedStacks' = <<>> /\ stackVar' = [c \in {0} |-> ZeroStack]
  /\ attempts' = <<>> /\ uploads' = <<>> /\ last' = [reqs |-> <<>>, calls |-> <<>>, files |-> <<>>]
  /\ steps' = <<>>
  /\ UNCHANGED <<config, env, syncAllStacks, remote, faults>>

\* a Publish that takes every binding as it comes (C16 must not survive it)
NeverBlank(binding) == FALSE

\* publisher.go:174 and 185: one of the two paths is empty
Blank(binding) == binding.LocalFolder = "" \/ binding.GrafanaFolder = <<>>

\* a Stat that reports a folder that does not exist like any other failure
\* (C15 must not survive it)
StatStrict(localFolder) == IF localFolder \in DOMAIN env.fs /\ env.fs[localFolder].stat = "ok" THEN "ok" ELSE "error"

\* system.DefaultFileSystem.Stat(localFolder), publisher.go:213: "ok",
\* "missing" (os.IsNotExist) or "error"; a path the file system does not know
\* is missing
Stat(localFolder) == IF localFolder \in DOMAIN env.fs THEN env.fs[localFolder].stat ELSE "missing"

\* publisher.go:174 and 185: a binding with a blank path is passed over
SkipBlankBinding ==
  /\ pc = "bindings" /\ b <= Len(Bindings) /\ Blank(Bindings[b])
  /\ b' = b + 1
  /\ UNCHANGED <<setup, pc, result, targets, phase, i, failedStacks, stackVar, faults, history, steps>>

\* publisher.go:213-220: the local folder does not exist
SkipMissingFolder ==
  /\ pc = "bindings" /\ b <= Len(Bindings) /\ ~Blank(Bindings[b])
  /\ Stat(Bindings[b].LocalFolder) = "missing"
  /\ b' = b + 1
  /\ steps' = Step("Stat", Bindings[b].LocalFolder)
  /\ UNCHANGED <<setup, pc, result, targets, phase, i, failedStacks, stackVar, faults, history>>

\* publisher.go:213-217: Stat fails for another reason
StatFails ==
  /\ pc = "bindings" /\ b <= Len(Bindings) /\ ~Blank(Bindings[b])
  /\ Stat(Bindings[b].LocalFolder) = "error"
  /\ pc' = "done" /\ result' = [kind |-> "error", stack |-> ""]
  /\ steps' = Step("Stat", Bindings[b].LocalFolder)
  /\ UNCHANGED <<setup, targets, phase, b, i, failedStacks, stackVar, faults, history>>

\* publisher.go:222-224: the failed list is empty, the first loop starts
StartBinding ==
  /\ pc = "bindings" /\ b <= Len(Bindings) /\ ~Blank(Bindings[b])
  /\ Stat(Bindings[b].LocalFolder) = "ok"
  /\ pc' = "first" /\ i' = 1 /\ failedStacks' = <<>>
  /\ stackVar' = [c \in 0..Len(Targets) |-> ZeroStack]
  /\ steps' = Step("Stat", Bindings[b].LocalFolder)
  /\ UNCHANGED <<setup, result, targets, phase, b, faults, history>>

Known(stack) == stack \in Range(env.stacks)

RemoteOf(stack) == IF Known(stack) THEN remote[stack.Slug] ELSE NoRemote

\* the attempt of the binding at hand on one stack, under the faults F
AttemptOn(stack, F) == SyncDashboardsForStack(RemoteOf(stack), F, stack, Known(stack), env.fs[Bindings[b].LocalFolder].files, Bindings[b].GrafanaFolder, config)

\* the fault sets the environment may choose from for an attempt on a stack:
\* within its budget (an attempt issues one more request per fault at most);
\* the attempt must issue every request it makes fail
FaultChoices(stack) == UpTo(1..(AttemptOn(stack, {}).n + faults), faults)

\* where syncDashboardsForStack returned: "session" (publisher.go:273, no
\* stack client), "folders" (284 and 292, a folder could not be ensured),
\* "walk" (476-480, after the walk)
ReturnedAt(done) ==
  IF ~done.calls[1].ok THEN "session"
  ELSE IF \E j \in 1..Len(done.calls) : done.calls[j].op = "EnsureFolder" /\ ~done.calls[j].ok THEN "folders"
  ELSE "walk"

\* what an attempt leaves behind in the history
Logged(stack, pass, done, F) ==
  /\ remote' = IF Known(stack) THEN [remote EXCEPT ![stack.Slug] = done.rem] ELSE remote
  /\ attempts' = Append(attempts, [phase |-> phase, b |-> b, pass |-> pass, stack |-> stack, out |-> done.out, files |-> done.files, at |-> ReturnedAt(done)])
  /\ uploads' = uploads \o [k \in 1..Len(done.ups) |-> [phase |-> phase, b |-> b, pass |-> pass, stack |-> stack, attempt |-> Len(attempts) + 1, up |-> done.ups[k]]]
  /\ last' = [reqs |-> done.reqs, calls |-> done.calls, files |-> done.files]
  /\ steps' = steps
  /\ faults' = faults - Cardinality(F)

\* the cell of the loop variable in iteration k of the first loop
CellOf(k) == IF env.perIteration THEN k ELSE 0

\* the range loop's variable in iteration k: a copy of the k-th target
LoopVar(k) == [stackVar EXCEPT ![CellOf(k)] = Targets[k]]

\* what the failed list gains when the attempt of iteration k fails
FailedEntry(k) == [stack |-> CellOf(k), err |-> "error"]

\* a first loop that stops at the first failing stack (C5 must not survive it)
AfterFirstBreak(k, out) == IF out = "error" THEN Len(Targets) + 1 ELSE k + 1

\* publisher.go:224-232: whatever the attempt of iteration k returned, the
\* loop goes on with the next stack
AfterFirst(k, out) == k + 1

\* publisher.go:226-231: an attempt that returned an error joins the failed list
Collect(failed, k, out) == IF out = "error" THEN Append(failed, FailedEntry(k)) ELSE failed

\* publisher.go:224-232: one iteration of the first loop
FirstAttempt ==
  LET Effect(F, done) ==
        /\ F \subseteq 1..done.n
        /\ Logged(Targets[i], "first", done, F)
        /\ stackVar' = LoopVar(i)
        /\ failedStacks' = Collect(failedStacks, i, done.out)
        /\ pc' = IF done.out = "panic" THEN "panic" ELSE pc
        /\ i' = AfterFirst(i, done.out)
  IN  /\ pc = "first" /\ i <= Len(Targets)
      /\ \E F \in FaultChoices(Targets[i]) : Effect(F, AttemptOn(Targets[i], F))
      /\ UNCHANGED <<setup, result, targets, phase, b>>

\* publisher.go:234 and 251: nothing failed, the binding is done
BindingDone ==
  /\ pc = "first" /\ i > Len(Targets) /\ failedStacks = <<>>
  /\ pc' = "bindings" /\ b' = b + 1
  /\ UNCHANGED <<setup, result, targets, phase, i, failedStacks, stackVar, faults, history, steps>>

\* publisher.go:234-243: some stack failed, the retry loop starts
StartRetry ==
  /\ pc = "first" /\ i > Len(Targets) /\ failedStacks # <<>>
  /\ pc' = "retry" /\ i' = 1
  /\ UNCHANGED <<setup, result, targets, phase, b, failedStacks, stackVar, faults, history, steps>>

\* the stack a failed-list entry points to
Deref(entry) == stackVar[entry.stack]

\* a retry loop that carries on after a failing retry (C4 must not survive it)
AfterRetryIgnoring(out) == IF out = "panic" THEN "panic" ELSE "retry"

\* a retry loop whose failure ends the run for a common binding only (C36
\* must not survive it)
AfterRetryOfCommon(out) == IF out = "panic" THEN "panic" ELSE IF out = "error" /\ phase = "common" THEN "done" ELSE "retry"

\* publisher.go:244-247: where Publish stands after a retry that returned out:
\* an error ends syncDashboards, and with it Publish (publisher.go:175-178)
AfterRetry(out) == IF out = "panic" THEN "panic" ELSE IF out = "error" THEN "done" ELSE "retry"

\* publisher.go:246 and 177: the error Publish returns names the retried stack
RetryResult(out, stack, before) == IF out = "error" THEN [kind |-> "error", stack |-> stack.Slug] ELSE before

\* publisher.go:243-248: one iteration of the retry loop
RetryAttempt ==
  LET Effect(stack, F, done) ==
        /\ F \subseteq 1..done.n
        /\ Logged(stack, "retry", done, F)
        /\ pc' = AfterRetry(done.out)
        /\ result' = RetryResult(done.out, stack, result)
        /\ i' = i + 1
      On(stack) == \E F \in FaultChoices(stack) : Effect(stack, F, AttemptOn(stack, F))
  IN  /\ pc = "retry" /\ i <= Len(failedStacks)
      /\ On(Deref(failedStacks[i]))
      /\ UNCHANGED <<setup, targets, phase, b, failedStacks, stackVar>>

\* publisher.go:249-251: every retry succeeded
RetryDone ==
  /\ pc = "retry" /\ i > Len(failedStacks)
  /\ pc' = "bindings" /\ b' = b + 1
  /\ UNCHANGED <<setup, result, targets, phase, i, failedStacks, stackVar, faults, history, steps>>

Next ==
  \/ PublishWithoutToken
  \/ ListStacksFails
  \/ SelectStacks
  \/ NextPhase
  \/ PublishReturns
  \/ SkipBlankBinding
  \/ SkipMissingFolder
  \/ StatFails
  \/ StartBinding
  \/ FirstAttempt
  \/ BindingDone
  \/ StartRetry
  \/ RetryAttempt
  \/ RetryDone
  \/ PublishAgain

\* ----------------------------------------------- the runs explored ------
Merge(f, g) == [x \in DOMAIN f \cup DOMAIN g |-> IF x \in DOMAIN f THEN f[x] ELSE g[x]]

\* a map with key k when vs = <<v>>, no key when vs = <<>>
Field(k, vs) == IF vs = <<>> THEN EmptyMap ELSE [x \in {k} |-> vs[1]]

File(name, ext, dash) == [name |-> name, ext |-> ext, dir |-> FALSE, body |-> Obj([dashboard |-> Obj(dash)])]

\* a directory under a local folder
Dir(name) == [name |-> name, ext |-> "", dir |-> TRUE, body |-> Null]

Folder(stat, files) == [stat |-> stat, files |-> files]

Binding(local, dest) == [LocalFolder |-> local, GrafanaFolder |-> dest]

\* {"dashboard": {"uid": "x", "title": "T"}}
PlainDash == [uid |-> Str(<<"x">>), title |-> Str(<<"T">>)]

\* the local folders of the runs that vary the stacks: /d1 and /d2 hold one
\* dashboard each, /gone does not exist
PlainFS == [d \in {"/d1", "/d2", "/gone"} |-> IF d = "/gone" THEN Folder("missing", <<>>) ELSE Folder("ok", <<File(d, ".json", PlainDash)>>)]

PlainConfig == [Exclusions |-> <<>>, CommonDashboards |-> <<>>, CustomDashboards |-> <<>>, CustomStack |-> "", TestStack |-> "", RootFolder |-> <<>>, IDSuffix |-> <<>>, Tags |-> <<>>]

Slugs(n) == {SlugOf[k] : k \in 1..n}

\* every list of distinct elements of S
RECURSIVE Lists(_)
Lists(S) == {<<>>} \cup UNION {{<<x>> \o l : l \in Lists(S \ {x})} : x \in S}

Scenario(c, e, all, f) == [config |-> c, env |-> e, syncAllStacks |-> all, faults |-> f]

\* runs about the retry: one or two common bindings over every stack, after a
\* custom binding or none, in either build; the runs over more than two
\* stacks see two failures at most
RetryScenarios ==
  { Scenario([PlainConfig EXCEPT !.CommonDashboards = common, !.CustomDashboards = custom, !.CustomStack = "a"],
             [token |-> TRUE, stacks |-> StackPool(n), fs |-> PlainFS, seeded |-> {}, lag |-> 0, perIteration |-> build], TRUE, IF n <= 2 THEN MaxFaults ELSE 2) :
      n \in 1..MaxStacks, build \in BOOLEAN,
      common \in {<<Binding("/d1", <<"Common">>)>>, <<Binding("/d1", <<"Common">>), Binding("/d2", <<"Other">>)>>},
      custom \in {<<>>, <<Binding("/d2", <<"Custom">>)>>} }

\* runs about the choice of stacks: every exclusion list, custom stack and
\* test stack, in both modes
SelectScenarios ==
  { Scenario([PlainConfig EXCEPT !.Exclusions = excl, !.CustomStack = IF all THEN name ELSE "a", !.TestStack = IF all THEN "a" ELSE name,
                                 !.CommonDashboards = <<Binding("/d1", <<"Common">>), Binding("/gone", <<"Common">>)>>,
                                 !.CustomDashboards = <<Binding("", <<"Custom">>), Binding("/d2", <<"Custom">>)>>],
             [token |-> TRUE, stacks |-> StackPool(n), fs |-> PlainFS, seeded |-> {}, lag |-> 0, perIteration |-> TRUE], all, 1) :
      n \in 0..MaxStacks, excl \in Lists(Slugs(MaxStacks)), name \in Slugs(MaxStacks) \cup {"", "nope"}, all \in BOOLEAN }

\* runs that cannot start or cannot stat, in both modes
EdgeScenarios ==
  { Scenario([PlainConfig EXCEPT !.CommonDashboards = <<Binding("/d1", <<"Common">>)>>, !.TestStack = "a"],
             [token |-> tok, stacks |-> StackPool(1), fs |-> [PlainFS EXCEPT !["/d1"].stat = stat], seeded |-> {}, lag |-> 0, perIteration |-> TRUE], all, 0) :
      tok \in BOOLEAN, stat \in {"ok", "error"}, all \in BOOLEAN }

\* the uid of a document: none, null, a number, the empty string, a short
\* one, one of 38, 40 and 41 characters
UidChoices == {<<>>, <<Null>>, <<Num(<<"7">>)>>, <<Str(<<>>)>>, <<Str(<<"x">>)>>, <<Str(Rep("a", 38))>>, <<Str(Rep("a", MaxUIDLen))>>, <<Str(Rep("a", MaxUIDLen + 1))>>}

\* the documents of the runs that vary the document
Dashes ==
  { Merge(Field("uid", uid), Merge(Field("title", title), Merge(Field("id", id), Merge(Field("folderId", id), Field("tags", tags))))) :
      uid \in UidChoices, title \in {<<>>, <<Str(<<"T">>)>>}, id \in {<<>>, <<Num(<<"7">>)>>}, tags \in {<<>>, <<Arr(<<Str(<<"old">>)>>)>>} }

\* runs about one document: every document above, with and without a root
\* folder, an identifier suffix and a tag list, on one stack
DocScenarios ==
  { Scenario([PlainConfig EXCEPT !.CommonDashboards = <<Binding("/d1", <<"Common">>)>>, !.RootFolder = root, !.IDSuffix = suffix, !.Tags = tags],
             [token |-> TRUE, stacks |-> StackPool(1), fs |-> [PlainFS EXCEPT !["/d1"].files = <<File("/d1/f.json", ".json", dash)>>], seeded |-> {}, lag |-> 0, perIteration |-> TRUE], TRUE, 1) :
      dash \in Dashes, root \in {<<>>, <<"root", "/", "folder">>}, suffix \in {<<>>, <<"-", "p", "r">>}, tags \in {<<>>, <<<<"tag1", "tag2">>>>} }

\* the bindings of the runs that pass bindings over: one without local
\* folder, one without destination (its folder cannot even be stat'ed), one
\* whose folder does not exist, one to sync
SkipBindings == {Binding("", <<"Common">>), Binding("/bad", <<>>), Binding("/gone", <<"Common">>), Binding("/d1", <<"Common">>)}

\* their local folders
SkipFS == [d \in {"/bad", "/gone", "/d1"} |-> IF d = "/d1" THEN PlainFS["/d1"] ELSE IF d = "/bad" THEN Folder("error", <<>>) ELSE Folder("missing", <<>>)]

\* runs about bindings that are passed over: every list of the bindings
\* above, as custom or as common bindings, in both modes
SkipScenarios ==
  { Scenario([PlainConfig EXCEPT !.CommonDashboards = IF custom THEN <<>> ELSE bindings, !.CustomDashboards = IF custom THEN bindings ELSE <<>>, !.CustomStack = "a", !.TestStack = "a"],
             [token |-> TRUE, stacks |-> StackPool(1), fs |-> SkipFS, seeded |-> {}, lag |-> 0, perIteration |-> TRUE], all, 1) :
      bindings \in Lists(SkipBindings), custom \in BOOLEAN, all \in BOOLEAN }

\* {"dashboard": {"uid": "xx...x" (41 letters), "title": "T"}}
LongDash == [uid |-> Str(Rep("x", MaxUIDLen + 1)), title |-> Str(<<"T">>)]

\* {"dashboard": {"uid": "p", "title": "T"}}
OtherDash == [uid |-> Str(<<"p">>), title |-> Str(<<"T">>)]

\* {"dashboard": {"title": "T"}}
TitleOnly == [title |-> Str(<<"T">>)]

\* what lies under /d1 in the runs with deletions, in walk order: a document
\* to upload, to delete, both in either order, files in a subdirectory, two
\* documents that have the same title and no uid
Walks(dash) ==
  { <<File("/d1/1", ".json", dash)>>,
    <<File("/d1/1", ".deleted", dash)>>,
    <<File("/d1/1", ".json", dash), File("/d1/2", ".deleted", dash)>>,
    <<File("/d1/1", ".deleted", dash), File("/d1/2", ".json", dash)>>,
    <<File("/d1/1", ".deleted", dash), File("/d1/2", ".deleted", OtherDash)>>,
    <<File("/d1/1", ".json", dash), Dir("/d1/sub"), File("/d1/sub/2", ".json", OtherDash)>>,
    <<Dir("/d1/sub"), File("/d1/sub/1", ".deleted", dash)>>,
    <<File("/d1/1", ".json", TitleOnly), File("/d1/2", ".json", Merge(TitleOnly, Field("tags", <<Arr(<<Str(<<"old">>)>>)>>)))>> }

\* a dashboard some earlier run left on the stacks
Seed(dash) == [uid |-> dash["uid"].v, folder |-> <<"|", "Common">>]

\* runs with deletions: the walks above over every stack, in either build,
\* with the document already on the stacks or not, without root folder and
\* suffix or with both
DeleteScenarios ==
  { Scenario([PlainConfig EXCEPT !.CommonDashboards = <<Binding("/d1", <<"Common">>)>>, !.RootFolder = cfg[1], !.IDSuffix = cfg[2]],
             [token |-> TRUE, stacks |-> StackPool(n), fs |-> [PlainFS EXCEPT !["/d1"].files = walk], seeded |-> seeded, lag |-> 0, perIteration |-> build], TRUE, 1) :
      n \in 1..MaxStacks, build \in BOOLEAN, walk \in Walks(PlainDash) \cup Walks(LongDash),
      seeded \in {{}, {Seed(PlainDash), Seed(LongDash)}}, cfg \in {<<<<>>, <<>>>>, <<<<"r">>, <<"-", "p", "r">>>>} }

\* a file by what it holds
RawFile(name, ext, body) == [name |-> name, ext |-> ext, dir |-> FALSE, body |-> body]

\* files the walk callback cannot handle: an extension that is neither
\* ".json" nor ".deleted", no extension
OddFiles == {File("/d1/2.txt", ".txt", PlainDash), File("/d1/2", "", PlainDash)}

\* files that do not hold what their extension promises: no "dashboard" key or
\* a null one, a ".deleted" document without uid, with a null uid, with a
\* number as uid
BrokenFiles ==
  { RawFile("/d1/2.json", ".json", Obj(EmptyMap)),
    RawFile("/d1/2.json", ".json", Obj([dashboard |-> Null])),
    RawFile("/d1/2.deleted", ".deleted", Obj(EmptyMap)),
    File("/d1/2.deleted", ".deleted", TitleOnly),
    File("/d1/2.deleted", ".deleted", [uid |-> Null, title |-> Str(<<"T">>)]),
    File("/d1/2.deleted", ".deleted", [uid |-> Num(<<"7">>), title |-> Str(<<"T">>)]) }

\* what lies under /d1 in the runs with such a file, in walk order: the file
\* first, or between files that can be handled; a directory named like an odd
\* file
BadWalks ==
  { <<bad, File("/d1/3.json", ".json", PlainDash)>> : bad \in OddFiles \cup BrokenFiles } \cup
  { <<File("/d1/1.json", ".json", PlainDash), bad, File("/d1/3.deleted", ".deleted", OtherDash), File("/d1/4.json", ".json", OtherDash)>> : bad \in OddFiles \cup BrokenFiles } \cup
  { <<Dir("/d1/2.txt"), File("/d1/2.txt/3.json", ".json", PlainDash)>> }

\* runs over a folder with a file that cannot be handled: two stacks that
\* hold the dashboard "p", in either build
BadFileScenarios ==
  { Scenario([PlainConfig EXCEPT !.CommonDashboards = <<Binding("/d1", <<"Common">>), Binding("/d2", <<"Other">>)>>],
             [token |-> TRUE, stacks |-> StackPool(2), fs |-> [PlainFS EXCEPT !["/d1"].files = walk], seeded |-> {Seed(OtherDash)}, lag |-> 0, perIteration |-> build], TRUE, 1) :
      walk \in BadWalks, build \in BOOLEAN }

\* what a variable of templating.list selected in the file
OldCurrent == Obj([selected |-> Bool("true"), text |-> Str(<<"old">>), value |-> Str(<<"old">>)])

\* an entry of templating.list: cur is <<>> or <<its "current">>
Variable(type, name, cur) == Obj(Merge([type |-> Str(<<type>>), name |-> Str(<<name>>)], Field("current", cur)))

\* the lists of the runs that vary templating.list: every datasource name of
\* the table and others, with and without a selection; the stack identifier
\* once, twice, among others; entries that look like the above and are not
\* (another type, no type, a number as name); no entry
VariableLists ==
  { <<Variable("datasource", "PROMPRO", <<OldCurrent>>), Variable("datasource", "P1EUW1", <<>>), Variable("datasource", "LOGSPRO", <<OldCurrent>>),
      Variable("datasource", "LOGUSAGE", <<>>), Variable("datasource", "OTHER", <<OldCurrent>>), Variable("datasource", "OTHER", <<>>)>>,
    <<Variable("custom", "STACKID", <<OldCurrent>>)>>,
    <<Variable("custom", "STACKID", <<>>), Variable("datasource", "LOGUSAGE", <<OldCurrent>>), Variable("custom", "STACKID", <<OldCurrent>>)>>,
    <<Variable("custom", "OTHER", <<OldCurrent>>), Variable("datasource", "STACKID", <<OldCurrent>>), Variable("custom", "PROMPRO", <<OldCurrent>>),
      Variable("query", "LOGSPRO", <<OldCurrent>>), Obj([name |-> Str(<<"PROMPRO">>), current |-> OldCurrent]), Obj([type |-> Str(<<"datasource">>), name |-> Num(<<"7">>), current |-> OldCurrent])>>,
    <<>> }

\* {"dashboard": {"uid": "x", "title": "T", "templating": {"list": [...]}}}
WithList(list) == Merge(PlainDash, [templating |-> Obj([list |-> Arr(list)])])

\* runs that vary templating.list: one document with each list above, or a
\* plain document before one with the stack identifier, on two stacks
VariableScenarios ==
  { Scenario([PlainConfig EXCEPT !.CommonDashboards = <<Binding("/d1", <<"Common">>)>>],
             [token |-> TRUE, stacks |-> StackPool(2), fs |-> [PlainFS EXCEPT !["/d1"].files = walk], seeded |-> {}, lag |-> 0, perIteration |-> TRUE], TRUE, 1) :
      walk \in {<<File("/d1/1.json", ".json", WithList(list))>> : list \in VariableLists}
                 \cup {<<File("/d1/1.json", ".json", PlainDash), File("/d1/2.json", ".json", WithList(<<Variable("custom", "STACKID", <<>>)>>))>>} }

\* the "tags" of the runs that vary the tags: none, null, a string, an empty
\* list, a list
TagChoices == {<<>>, <<Null>>, <<Str(<<"old">>)>>, <<Arr(<<>>)>>, <<Arr(<<Str(<<"old">>), Str(<<"tag1">>)>>)>>}

\* runs that vary the tags: each of the above in the file; no tag list, an
\* empty one, one that repeats a tag and holds one of the file's, in the
\* configuration
TagScenarios ==
  { Scenario([PlainConfig EXCEPT !.CommonDashboards = <<Binding("/d1", <<"Common">>)>>, !.Tags = tags],
             [token |-> TRUE, stacks |-> StackPool(1), fs |-> [PlainFS EXCEPT !["/d1"].files = <<File("/d1/1.json", ".json", Merge(PlainDash, Field("tags", doc)))>>], seeded |-> {}, lag |-> 0, perIteration |-> TRUE], TRUE, 1) :
      doc \in TagChoices, tags \in {<<>>, <<<<>>>>, <<<<"tag1", "old", "tag1">>>>} }

\* runs that vary the root path: one segment or two of the same name, a
\* destination of that name too, one binding or two, one stack or two, a
\* remote that shows a new folder at once, at the second listing or not
\* within the polls of EnsureFolder, and enough failures to use up these polls
RootScenarios ==
  { Scenario([PlainConfig EXCEPT !.CommonDashboards = common, !.RootFolder = root],
             [token |-> TRUE, stacks |-> StackPool(n), fs |-> PlainFS, seeded |-> {}, lag |-> lag, perIteration |-> TRUE], TRUE, MaxPolls) :
      root \in {<<"r">>, <<"r", "/", "r">>}, n \in {1, 2}, lag \in {0, 1, MaxPolls},
      common \in {<<Binding("/d1", <<"r">>)>>, <<Binding("/d1", <<"r">>), Binding("/d2", <<"Other">>)>>} }

\* documents whose parts are not of the JSON type the walk callback asserts:
\* a "dashboard" that is a string, a "templating" that is a string, one
\* without "list", with a null or an object as "list", a list with a string
\* among its entries; and one whose "templating" is null
ShapedDocs ==
  { Obj([dashboard |-> Str(<<"x">>)]),
    Obj([dashboard |-> Obj(Merge(PlainDash, [templating |-> Str(<<"x">>)]))]),
    Obj([dashboard |-> Obj(Merge(PlainDash, [templating |-> Obj(EmptyMap)]))]),
    Obj([dashboard |-> Obj(Merge(PlainDash, [templating |-> Obj([list |-> Null])]))]),
    Obj([dashboard |-> Obj(Merge(PlainDash, [templating |-> Obj([list |-> Obj(EmptyMap)])]))]),
    Obj([dashboard |-> Obj(WithList(<<Variable("custom", "STACKID", <<>>), Str(<<"x">>)>>))]),
    Obj([dashboard |-> Obj(Merge(PlainDash, [templating |-> Null]))]) }

\* runs over a folder with such a document, as ".json" or as ".deleted",
\* after a plain document, on two stacks that hold the dashboard "x"
ShapeScenarios ==
  { Scenario([PlainConfig EXCEPT !.CommonDashboards = <<Binding("/d1", <<"Common">>), Binding("/d2", <<"Other">>)>>],
             [token |-> TRUE, stacks |-> StackPool(2), fs |-> [PlainFS EXCEPT !["/d1"].files = <<File("/d1/1.json", ".json", OtherDash), RawFile("/d1/2" \o ext, ext, doc)>>],
              seeded |-> {Seed(PlainDash)}, lag |-> 0, perIteration |-> TRUE], TRUE, 1) :
      doc \in ShapedDocs, ext \in {".json", ".deleted"} }

\* runs in all-stacks mode whose custom stack is no candidate: a name no
\* stack has, no name, the name of an excluded stack; three custom bindings,
\* the first of a folder that does not exist, and a common one
ZeroScenarios ==
  { Scenario([PlainConfig EXCEPT !.Exclusions = pick[1], !.CustomStack = pick[2],
                                 !.CustomDashboards = <<Binding("/gone", <<"Custom">>), Binding("/d1", <<"Custom">>), Binding("/d2", <<"Custom">>)>>,
                                 !.CommonDashboards = <<Binding("/d1", <<"Common">>)>>],
             [token |-> TRUE, stacks |-> StackPool(n), fs |-> PlainFS, seeded |-> {}, lag |-> 0, perIteration |-> TRUE], TRUE, f) :
      pick \in {<<<<>>, "nope">>, <<<<>>, "">>, <<<<"a">>, "a">>}, n \in {1, 2}, f \in {0, 1} }

\* runs in which Publish is called twice: the walks with deletions over two
\* stacks that hold the dashboard "x", under a root folder and with a suffix,
\* in either build, with a remote that shows a new folder at once or at the
\* second listing and logs every create-folder request, with no request
\* failing or one
AgainScenarios ==
  { Scenario([PlainConfig EXCEPT !.CommonDashboards = <<Binding("/d1", <<"Common">>)>>, !.RootFolder = <<"r">>, !.IDSuffix = <<"-", "p", "r">>],
             [token |-> TRUE, stacks |-> StackPool(2), fs |-> [PlainFS EXCEPT !["/d1"].files = walk], seeded |-> {Seed(PlainDash)}, lag |-> lag, perIteration |-> build, runs |-> 2, audit |-> TRUE], TRUE, f) :
      walk \in Walks(PlainDash), lag \in {0, 1}, build \in BOOLEAN, f \in {0, 1} }

\* a variable with fields of its own besides "current"
Labelled(type, name) == Obj(Merge([label |-> Str(<<"L">>), options |-> Arr(<<OldCurrent>>), query |-> Str(<<"q">>)], Variable(type, name, <<OldCurrent>>).v))

\* a document with every field the callback touches and others it has no
\* business with: panels, a version, a switch beside templating.list, and
\* variables that carry a label
RichDash ==
  [id |-> Num(<<"7">>), folderId |-> Num(<<"3">>), folderUid |-> Str(<<"old">>), uid |-> Str(<<"x">>), title |-> Str(<<"T">>),
   tags |-> Arr(<<Str(<<"old">>)>>), version |-> Num(<<"2">>),
   panels |-> Arr(<<Obj([id |-> Num(<<"1">>), title |-> Str(<<"P">>), datasource |-> Str(<<"PROMPRO">>), uid |-> Str(<<"x">>)])>>),
   templating |-> Obj([enable |-> Bool("true"),
                       list |-> Arr(<<Labelled("datasource", "PROMPRO"), Labelled("datasource", "OTHER"), Labelled("custom", "STACKID"),
                                      Labelled("custom", "LOGSPRO"), Labelled("query", "STACKID")>>)])]

\* runs over a folder with that document and a plain one, on two stacks, with
\* and without root folder, suffix and tags
FrameScenarios ==
  { Scenario([PlainConfig EXCEPT !.CommonDashboards = <<Binding("/d1", <<"Common">>)>>, !.RootFolder = cfg[1], !.IDSuffix = cfg[2], !.Tags = cfg[3]],
             [token |-> TRUE, stacks |-> StackPool(2), fs |-> [PlainFS EXCEPT !["/d1"].files = <<File("/d1/1.json", ".json", RichDash), File("/d1/2.json", ".json", OtherDash)>>],
              seeded |-> {}, lag |-> 0, perIteration |-> TRUE], TRUE, 1) :
      cfg \in {<<<<>>, <<>>, <<>>>>, <<<<"r">>, <<"-", "p", "r">>, <<<<"tag1">>>>>>} }

\* runs with two custom bindings for stack "a" and two common ones, over two
\* stacks: the folder of the second custom binding holds a file that cannot
\* be handled, or a plain document
OrderScenarios ==
  { Scenario([PlainConfig EXCEPT !.CustomStack = "a",
                                 !.CustomDashboards = <<Binding("/d1", <<"Custom">>), Binding("/d2", <<"Custom">>)>>,
                                 !.CommonDashboards = <<Binding("/d2", <<"Common">>), Binding("/d1", <<"Common">>)>>],
             [token |-> TRUE, stacks |-> StackPool(2), fs |-> [PlainFS EXCEPT !["/d2"].files = walk], seeded |-> {}, lag |-> 0, perIteration |-> build], TRUE, 1) :
      walk \in {<<File("/d2/1.txt", ".txt", PlainDash)>>, <<File("/d2/1.json", ".json", PlainDash)>>}, build \in BOOLEAN }

Scenarios == OrderScenarios \cup FrameScenarios \cup AgainScenarios \cup ZeroScenarios \cup ShapeScenarios \cup RootScenarios \cup TagScenarios \cup VariableScenarios \cup RetryScenarios \cup SelectScenarios \cup EdgeScenarios \cup DocScenarios \cup SkipScenarios \cup DeleteScenarios \cup BadFileScenarios

Init ==
  \E s \in Scenarios :
    /\ config = s.config /\ env = s.env /\ syncAllStacks = s.syncAllStacks /\ faults = s.faults
    /\ pc = "start" /\ result = NoResult
    /\ stacksWithCommonDashboards = <<>> /\ stacksWithCustomDashboards = <<>>
    /\ phase = "custom" /\ b = 1 /\ i = 1
    /\ failedStacks = <<>> /\ stackVar = [c \in {0} |-> ZeroStack]
    /\ remote = [slug \in Slugs(MaxStacks) |-> [NoRemote EXCEPT !.dashboards = s.env.seeded, !.lag = s.env.lag, !.audit = Audit(s.env)]]
    /\ attempts = <<>> /\ uploads = <<>> /\ last = [reqs |-> <<>>, calls |-> <<>>, files |-> <<>>]
    /\ steps = <<>> /\ earlier = <<>>

Spec == Init /\ [][Next]_vars

\* ------------------------------------------------ reading the history ---
Attempts == 1..Len(attempts)

Uploads == 1..Len(uploads)

SameBinding(x, y) == x.phase = y.phase /\ x.b = y.b

\* the target list syncDashboards was given for a binding of that phase
TargetsOf(ph) == IF ph = "custom" THEN stacksWithCustomDashboards ELSE stacksWithCommonDashboards

\* the attempts of one pass over the binding of attempt k, in order
RECURSIVE PassStacks(_, _, _, _)
PassStacks(ph, bi, pass, k) ==
  IF k > Len(attempts) THEN <<>>
  ELSE IF attempts[k].phase = ph /\ attempts[k].b = bi /\ attempts[k].pass = pass THEN <<attempts[k].stack>> \o PassStacks(ph, bi, pass, k + 1)
  ELSE PassStacks(ph, bi, pass, k + 1)

\* how often UploadDashboard was called for a file on a stack in the binding
\* of attempt k
UploadCalls(k, stack, file) == Cardinality({u \in Uploads : SameBinding(uploads[u], attempts[k]) /\ uploads[u].stack = stack /\ uploads[u].up.file = file})

FailedUploads(k) == {u \in Uploads : uploads[u].attempt = k /\ ~uploads[u].up.ok}

FirstFailures == {k \in Attempts : attempts[k].pass = "first" /\ attempts[k].out = "error"}

RetryFailures == {k \in Attempts : attempts[k].pass = "retry" /\ attempts[k].out = "error"}

Excluded == ExclusionsMap(config.Exclusions)

\* Publish has passed the target selection: the custom list then holds the one
\* stack stackByName returned
Selected == stacksWithCustomDashboards # <<>>

Enumerated == Range(env.stacks)

C3_EveryFailedStackRetried ==
  \A k \in FirstFailures :
    (pc \in {"bindings", "done"}) =>
      \E j \in Attempts : j > k /\ attempts[j].pass = "retry" /\ SameBinding(attempts[j], attempts[k]) /\ attempts[j].stack = attempts[k].stack

\* C4: a retry that fails is the last attempt of the run: Publish has returned
\* an error that names the stack of that retry, and no attempt (hence no
\* session, folder, upload or delete call) follows it.
C4_FailedRetryEndsRun ==
  \A k \in RetryFailures :
    /\ k = Len(attempts)
    /\ pc = "done" /\ result.kind = "error" /\ result.stack = attempts[k].stack.Slug

\* C4 witness: a retry failed while bindings were still to come
C4_Witness ==
  /\ RetryFailures # {}
  /\ \/ phase = "custom" /\ config.CommonDashboards # <<>>
     \/ b < Len(Bindings)

\* C5: during and after the first pass over a binding, the stacks attempted
\* in that pass are the targets in order, one attempt each, whatever the
\* earlier attempts returned (nil or an error).
C5_FirstPassAttemptsEveryStack ==
  /\ pc = "first" => PassStacks(phase, b, "first", 1) = SubSeq(Targets, 1, i - 1)
  /\ pc = "retry" => PassStacks(phase, b, "first", 1) = Targets

\* C5 witness: the first stack of two failed and the second was attempted
C5_Witness ==
  /\ pc = "retry" /\ Len(Targets) >= 2
  /\ \E k \in FirstFailures : SameBinding(attempts[k], [phase |-> phase, b |-> b]) /\ attempts[k].stack = Targets[1]

\* C6: in all-stacks mode an enumerated stack whose slug is excluded is in
\* neither target list and is never attempted.
C6_ExcludedNeverTargeted ==
  (syncAllStacks /\ Selected) =>
    \A S \in Enumerated : S.Slug \in Excluded =>
      /\ S \notin Range(stacksWithCommonDashboards)
      /\ S \notin Range(stacksWithCustomDashboards)
      /\ \A k \in Attempts : attempts[k].stack # S

\* C6 witness: the run ended, attempts were made, and the custom stack is an
\* enumerated stack that is excluded
C6_Witness ==
  /\ syncAllStacks /\ pc = "done" /\ attempts # <<>>
  /\ \E S \in Enumerated : S.Slug \in Excluded /\ S.Slug = config.CustomStack

\* C7 as stated: in test mode both target lists hold exactly the enumerated
\* stack whose slug is the configured test stack.
C7_TargetsAreTheTestStack ==
  (~syncAllStacks /\ Selected) =>
    /\ stacksWithCommonDashboards = stacksWithCustomDashboards
    /\ Len(stacksWithCommonDashboards) = 1
    /\ stacksWithCommonDashboards[1] \in Enumerated
    /\ stacksWithCommonDashboards[1].Slug = config.TestStack

\* the enumerated stacks that are not excluded and carry the test stack's slug
TestStacks == {S \in Enumerated : S.Slug \notin Excluded /\ S.Slug = config.TestStack}

\* C7 amended: in test mode both target lists are the same one-element list:
\* the enumerated, not excluded stack whose slug is the configured test stack
\* or, when there is none, the zero-value stack; every attempt of the run,
\* of a custom or a common binding, is on that one stack.
C7_TargetsAreTheTestStackOrZero ==
  (~syncAllStacks /\ Selected) =>
    /\ stacksWithCommonDashboards = stacksWithCustomDashboards
    /\ Len(stacksWithCommonDashboards) = 1
    /\ IF TestStacks # {} THEN stacksWithCommonDashboards[1] \in TestStacks ELSE stacksWithCommonDashboards[1] = ZeroStack
    /\ \A k \in Attempts : attempts[k].stack = stacksWithCommonDashboards[1]

\* C7 witness: a test-mode run over two stacks has uploaded a custom and a
\* common binding to the test stack
C7_Witness ==
  /\ ~syncAllStacks /\ pc = "done" /\ Len(env.stacks) = 2
  /\ \E u, w \in Uploads : /\ uploads[u].phase = "custom" /\ uploads[w].phase = "common"
                           /\ uploads[u].stack.Slug = config.TestStack /\ uploads[w].stack.Slug = config.TestStack

\* C8: in all-stacks mode the common targets are exactly the enumerated stacks
\* that are not excluded, and the first pass over a common binding attempts
\* each of them; a custom binding is attempted on the stack stackByName
\* returned for the custom stack only, and every upload of a custom binding
\* goes to an enumerated stack whose slug is the configured custom stack.
C8_CommonToAllCustomToOne ==
  (syncAllStacks /\ Selected) =>
    /\ Range(stacksWithCommonDashboards) = {S \in Enumerated : S.Slug \notin Excluded}
    /\ (pc = "retry" /\ phase = "common") => Range(PassStacks(phase, b, "first", 1)) = {S \in Enumerated : S.Slug \notin Excluded}
    /\ \A k \in Attempts : attempts[k].phase = "custom" => (attempts[k].stack.Slug = config.CustomStack \/ attempts[k].stack = ZeroStack)
    /\ \A u \in Uploads : uploads[u].phase = "custom" => (uploads[u].stack \in Enumerated /\ uploads[u].stack.Slug = config.CustomStack)

\* C8 witness: an all-stacks run over two stacks, none excluded, has uploaded
\* the custom binding to the custom stack and a common binding to both
C8_Witness ==
  /\ syncAllStacks /\ pc = "done" /\ Len(env.stacks) = 2 /\ Excluded = {}
  /\ \E u \in Uploads : uploads[u].phase = "custom" /\ uploads[u].up.ok
  /\ \A S \in Enumerated : \E u \in Uploads : uploads[u].phase = "common" /\ uploads[u].stack = S /\ uploads[u].up.ok

\* C9: every record handed to UploadDashboard carries a document without the
\* keys id and folderId, whose folderUid is the UID of the folder EnsureFolder
\* returned for the attempt, whose uid has at most 40 characters, and the
\* record's UID and FolderUID are the document's uid and folderUid.
C9_UploadedDocumentShape ==
  \A u \in Uploads :
    LET record == uploads[u].up.record
    IN  /\ "id" \notin DOMAIN record.Dashboard
        /\ "folderId" \notin DOMAIN record.Dashboard
        /\ record.Dashboard["folderUid"] = Str(uploads[u].up.folder.UID)
        /\ record.Dashboard["uid"].t = "string"
        /\ Len(record.Dashboard["uid"].v) <= MaxUIDLen
        /\ record.UID = record.Dashboard["uid"].v
        /\ record.FolderUID = record.Dashboard["folderUid"].v

\* the document of the one file of /d1
SourceDash == env.fs["/d1"].files[1].body.v["dashboard"].v

\* C9 witness: a document with id, folderId and a uid that the suffix makes
\* longer than 40 characters was uploaded
C9_Witness ==
  /\ uploads # <<>> /\ uploads[1].up.file = "/d1/f.json"
  /\ DOMAIN SourceDash = {"uid", "title", "id", "folderId", "tags"}
  /\ SourceDash["uid"] = Str(Rep("a", 38))
  /\ config.RootFolder # <<>> /\ config.IDSuffix # <<>>

\* C10: every uploaded document carries a non-empty uid.
C10_UploadedUidNotEmpty ==
  \A u \in Uploads : uploads[u].up.record.Dashboard["uid"].v # <<>>

\* --------------------------------------------- reading the documents ---
\* the binding an attempt or an upload belongs to
BindingOf(x) == (IF x.phase = "custom" THEN config.CustomDashboards ELSE config.CommonDashboards)[x.b]

\* what lies under the local folder of that binding
FilesOf(x) == Range(env.fs[BindingOf(x).LocalFolder].files)

\* the inner document of the file an upload came from, as it is on disk
SourceOf(u) == (CHOOSE f \in FilesOf(uploads[u]) : f.name = uploads[u].up.file).body.v["dashboard"].v

UploadedUID(u) == uploads[u].up.record.UID

HasStringUID(dash) == "uid" \in DOMAIN dash /\ dash["uid"].t = "string"

\* the file holds an object with an object under "dashboard"
HasDocument(f) == f.body.t = "object" /\ IsA(f.body.v, "dashboard", "object")

\* the identifier a document brings along: its uid, else the hash of its title
DocumentID(dash) == IF HasStringUID(dash) THEN dash["uid"].v ELSE GenerateUniqueID(dash["title"].v)

\* C11: whenever an identifier suffix is configured and the document's
\* identifier followed by the suffix has at most 40 characters, the uploaded
\* identifier is the document's identifier followed by the suffix, with or
\* without a root folder.
C11_SuffixAlwaysAppended ==
  \A u \in Uploads :
    (config.IDSuffix # <<>> /\ Len(DocumentID(SourceOf(u))) + Len(config.IDSuffix) <= MaxUIDLen) =>
      UploadedUID(u) = DocumentID(SourceOf(u)) \o config.IDSuffix

\* the identifier c after the 40-character limit
Limit(c) == IF Len(c) > MaxUIDLen THEN GenerateUniqueID(c) ELSE c

\* C12: the uploaded identifier is the document's identifier, with or without
\* the suffix, when that has at most 40 characters, and GenerateUniqueID of it,
\* which has exactly 40 characters, when it is longer.
C12_LongIdentifierHashed ==
  \A u \in Uploads :
    /\ UploadedUID(u) \in {Limit(DocumentID(SourceOf(u))), Limit(DocumentID(SourceOf(u)) \o config.IDSuffix)}
    /\ Len(GenerateUniqueID(DocumentID(SourceOf(u)) \o config.IDSuffix)) = MaxUIDLen
    /\ Len(UploadedUID(u)) <= MaxUIDLen

\* C12 witness: a uid of 38 characters that the suffix made longer than 40 was
\* uploaded as the hash of the suffixed uid
C12_Witness ==
  \E u \in Uploads :
    /\ HasStringUID(SourceOf(u)) /\ Len(SourceOf(u)["uid"].v) = 38 /\ Len(config.IDSuffix) = 3
    /\ UploadedUID(u) = GenerateUniqueID(SourceOf(u)["uid"].v \o config.IDSuffix)
    /\ UploadedUID(u) # SubSeq(SourceOf(u)["uid"].v \o config.IDSuffix, 1, MaxUIDLen)

\* two documents with the same uid or, when neither has a uid, the same title
SameIdentity(d, e) ==
  \/ HasStringUID(d) /\ HasStringUID(e) /\ d["uid"] = e["uid"]
  \/ ~HasStringUID(d) /\ ~HasStringUID(e) /\ d["title"] = e["title"]

\* C13: within a run two uploads of documents with the same uid, or with no
\* uid and the same title, carry the same identifier, whatever else the
\* documents hold, on whichever stack and in whichever pass they were made.
C13_IdentifierIsAFunction ==
  \A u, w \in Uploads : SameIdentity(SourceOf(u), SourceOf(w)) => UploadedUID(u) = UploadedUID(w)

\* C13 witness: two different documents with the same title and no uid were
\* uploaded, one of them on two stacks and again in a retry
C13_Witness ==
  /\ \E u, w \in Uploads : ~HasStringUID(SourceOf(u)) /\ SourceOf(u) # SourceOf(w) /\ SameIdentity(SourceOf(u), SourceOf(w))
  /\ \E u, w \in Uploads : uploads[u].up.file = uploads[w].up.file /\ uploads[u].stack # uploads[w].stack
  /\ \E u, w \in Uploads : uploads[u].up.file = uploads[w].up.file /\ uploads[u].pass = "first" /\ uploads[w].pass = "retry" /\ config.IDSuffix # <<>> /\ config.RootFolder # <<>>

\* ------------------------------------------------- reading the steps ---
Steps == 1..Len(steps)

\* the state of the stacks when the run starts
Untouched == [slug \in Slugs(MaxStacks) |-> [NoRemote EXCEPT !.dashboards = env.seeded]]

\* C14: without the token in the environment Publish makes no step of its
\* own (no ListStacks, no Stat), no attempt on any stack and no upload, leaves
\* every stack as it was, and what it returns is nil, in either mode.
C14_NoTokenNoRun ==
  ~env.token =>
    /\ steps = <<>> /\ attempts = <<>> /\ uploads = <<>> /\ last.reqs = <<>> /\ last.calls = <<>>
    /\ remote = Untouched
    /\ pc \in {"start", "done"}
    /\ pc = "done" => result.kind = "nil"

\* C14 witness: Publish(false) returned without the token, with a binding and
\* a test stack configured
C14_Witness ==
  /\ ~env.token /\ ~syncAllStacks /\ pc = "done"
  /\ config.CommonDashboards # <<>> /\ env.stacks # <<>>

\* the local folder does not exist
Missing(folder) == folder \notin DOMAIN env.fs \/ env.fs[folder].stat = "missing"

\* the Stat of step j was of a folder that does not exist
StatMissing(j) == steps[j].op = "Stat" /\ Missing(steps[j].arg)

\* C15: no attempt is ever made for a binding whose local folder does not
\* exist, and right after the Stat that found it missing Publish stands
\* between two bindings or has returned nil.
C15_MissingFolderSkipped ==
  /\ \A k \in Attempts : ~Missing(BindingOf(attempts[k]).LocalFolder)
  /\ \A j \in Steps : (StatMissing(j) /\ j = Len(steps)) =>
       /\ \A k \in Attempts : ~SameBinding(attempts[k], steps[j])
       /\ \/ pc = "bindings" /\ result = NoResult
          \/ pc = "done" /\ result.kind = "nil"

\* C15 witness: Publish returned nil after a binding whose folder is missing
\* was passed over and the binding after it was uploaded
C15_Witness ==
  /\ pc = "done" /\ result.kind = "nil"
  /\ \E j \in Steps : StatMissing(j) /\ j < Len(steps)
        /\ \E u \in Uploads : uploads[u].up.ok /\ uploads[u].phase = steps[j].phase /\ uploads[u].b > steps[j].b

\* the binding of a step or an attempt lacks one of its paths
BlankPaths(x) == BindingOf(x).LocalFolder = "" \/ BindingOf(x).GrafanaFolder = <<>>

\* C16: no Stat and no attempt is ever made for a binding with an empty local
\* or destination path, and when Publish returns an error it is ListStacks, a
\* Stat of a binding with both paths or a retry that failed.
C16_BlankBindingSkipped ==
  /\ \A j \in Steps : steps[j].op = "Stat" => ~BlankPaths(steps[j])
  /\ \A k \in Attempts : ~BlankPaths(attempts[k])
  /\ result.kind = "error" =>
       \/ attempts # <<>> /\ Len(attempts) \in RetryFailures
       \/ steps # <<>> /\ steps[Len(steps)].op = "ListStacks"
       \/ steps # <<>> /\ steps[Len(steps)].op = "Stat" /\ ~Missing(steps[Len(steps)].arg) /\ env.fs[steps[Len(steps)].arg].stat = "error"

\* C16 witness: Publish returned nil after it passed over a binding without
\* local folder and one without destination and uploaded the one after them
C16_Witness ==
  /\ pc = "done" /\ result.kind = "nil"
  /\ \E u \in Uploads : uploads[u].up.ok /\ uploads[u].b = 3
        /\ \A c \in {1, 2} : BlankPaths([phase |-> uploads[u].phase, b |-> c])
        /\ BindingOf([phase |-> uploads[u].phase, b |-> 1]) # BindingOf([phase |-> uploads[u].phase, b |-> 2])

\* ------------------------------------------ reading the latest attempt --
LastFiles == 1..Len(last.files)

\* the file of entry x of the latest attempt's file log, as it is on disk
LastFile(x) == CHOOSE f \in FilesOf(attempts[Len(attempts)]) : f.name = last.files[x].file

\* entry x is a ".deleted" file whose document has a string uid
MarksDeletion(x) == LastFile(x).ext = ".deleted" /\ HasDocument(LastFile(x)) /\ HasStringUID(LastFile(x).body.v["dashboard"].v)

MarkedUID(x) == LastFile(x).body.v["dashboard"].v["uid"].v

\* the client calls made for entry x: the first one, how many
FirstCall(x) == last.calls[last.files[x].from + 1]

CallCount(x) == last.files[x].to - last.files[x].from

\* C17: for a ".deleted" file with a string uid U the first call is
\* GetDashboard(U); when it succeeds exactly one more call follows for the
\* file, DeleteDashboard(U), and the file succeeds when that call does; when
\* it fails no other call is made for the file and the file succeeds.  No
\* DeleteDashboard call is made otherwise.
C17_DeleteOnlyWhenFound ==
  /\ \A x \in LastFiles : MarksDeletion(x) =>
       /\ CallCount(x) >= 1 /\ FirstCall(x).op = "GetDashboard" /\ FirstCall(x).arg = <<MarkedUID(x)>>
       /\ FirstCall(x).ok =>
            /\ CallCount(x) = 2
            /\ last.calls[last.files[x].to].op = "DeleteDashboard" /\ last.calls[last.files[x].to].arg = <<MarkedUID(x)>>
            /\ last.files[x].ok = last.calls[last.files[x].to].ok
       /\ ~FirstCall(x).ok => (CallCount(x) = 1 /\ last.files[x].ok)
  /\ Cardinality({j \in 1..Len(last.calls) : last.calls[j].op = "DeleteDashboard"}) = Cardinality({x \in LastFiles : MarksDeletion(x) /\ FirstCall(x).ok})

\* C17 witness: in an attempt in which no request failed for another reason,
\* one ".deleted" file found its dashboard and deleted it, another did not
\* find its dashboard, and both succeeded
C17_Witness ==
  /\ attempts # <<>> /\ \A j \in 1..Len(last.reqs) : last.reqs[j].ok \/ last.reqs[j].op = "GetDashboardByUID"
  /\ faults = 1 /\ \A k \in Attempts : attempts[k].out = ""
  /\ \E x, y \in LastFiles :
       /\ MarksDeletion(x) /\ FirstCall(x).ok /\ last.files[x].ok
       /\ MarksDeletion(y) /\ ~FirstCall(y).ok /\ last.files[y].ok

\* ------------------------------------------------ reading the outcome ---
Succeeded == pc = "done" /\ result.kind = "nil"

\* the regular files with that extension under the local folder of attempt k
FilesWith(k, ext) == {f \in FilesOf(attempts[k]) : ~f.dir /\ f.ext = ext}

\* the enumerated stacks among the targets of the binding of attempt k
RealTargets(k) == Range(TargetsOf(attempts[k].phase)) \cap Enumerated

OnStack(t, uid) == \E d \in remote[t.Slug].dashboards : d.uid = uid

\* C18: when Publish has returned nil, for every binding that was attempted no
\* target stack holds a dashboard whose uid a ".deleted" file of the binding
\* names.
C18_MarkedDashboardsAbsent ==
  Succeeded =>
    \A k \in Attempts : \A f \in FilesWith(k, ".deleted") :
      (HasDocument(f) /\ HasStringUID(f.body.v["dashboard"].v)) => \A t \in RealTargets(k) : ~OnStack(t, f.body.v["dashboard"].v["uid"].v)

\* upload u sent the file to the stack for the binding of attempt k, with
\* success, into the folder resolved for the binding
Delivered(u, k, t, f) ==
  /\ SameBinding(uploads[u], attempts[k]) /\ uploads[u].stack = t /\ uploads[u].up.file = f.name /\ uploads[u].up.ok
  /\ uploads[u].up.record.FolderUID = uploads[u].up.folder.UID
  /\ uploads[u].up.folder.Title = BindingOf(attempts[k]).GrafanaFolder

UploadsOf(x) == {j \in (last.files[x].from + 1)..last.files[x].to : last.calls[j].op = "UploadDashboard"}

\* C20: when one attempt handles a ".json" file and a ".deleted" file with
\* the same document, the identifier GetDashboard is asked for is the one the
\* document was uploaded under.
C20_DeletedCopySameIdentifier ==
  \A x, y \in LastFiles :
    (LastFile(x).ext = ".json" /\ MarksDeletion(y) /\ LastFile(x).body = LastFile(y).body /\ CallCount(y) >= 1) =>
      \A j \in UploadsOf(x) : last.calls[j].arg = FirstCall(y).arg

\* ------------------------------------------ reading every attempt ------
\* the file of entry x of the file log of attempt k, as it is on disk
FileAt(k, x) == CHOOSE f \in FilesOf(attempts[k]) : f.name = attempts[k].files[x].file

\* the entries of the file log of attempt k
Handled(k) == 1..Len(attempts[k].files)

\* a regular file whose extension is neither ".json" nor ".deleted"
Unsupported(f) == ~f.dir /\ f.ext \notin {".json", ".deleted"}

\* Publish is still at the binding of attempt k, or has ended there
AtBindingOf(k) == pc \in {"first", "retry", "done"} /\ phase = attempts[k].phase /\ b = attempts[k].b

\* C21: when an attempt reaches a regular file whose extension is neither
\* ".json" nor ".deleted", no client call is made for the file, the file is
\* the last one the attempt handles, the attempt returns an error, Publish
\* never gets past that binding, and when Publish has returned it has returned
\* an error.
C21_UnsupportedFileFailsBinding ==
  \A k \in Attempts : \A x \in Handled(k) : Unsupported(FileAt(k, x)) =>
    /\ ~attempts[k].files[x].ok /\ attempts[k].files[x].from = attempts[k].files[x].to
    /\ x = Len(attempts[k].files)
    /\ attempts[k].out = "error"
    /\ AtBindingOf(k)
    /\ pc = "done" => result.kind = "error"

\* C21 witness: Publish has returned an error after a first attempt and its
\* retry both reached a file without extension past a file they uploaded,
\* with no request failing
C21_Witness ==
  /\ pc = "done" /\ result.kind = "error" /\ faults = 1
  /\ \E k, r \in Attempts :
       /\ attempts[k].pass = "first" /\ attempts[r].pass = "retry" /\ attempts[k].stack = attempts[r].stack
       /\ \A a \in {k, r} : Len(attempts[a].files) = 2 /\ attempts[a].files[1].ok /\ FileAt(a, 2).ext = ""

\* ------------------------------------------ reading templating.list ----
\* the document has a templating.list
HasList(dash) == IsA(dash, "templating", "object") /\ IsA(dash["templating"].v, "list", "array")

ListOf(dash) == dash["templating"].v["list"].v

\* the entries of a list that are variables of that type
VarsOfType(list, type) == {j \in 1..Len(list) : list[j].t = "object" /\ IsWord(list[j].v, "type", type)}

\* the name of a variable, "" when it is not a string
NameOf(var) == IF IsA(var.v, "name", "string") THEN var.v["name"].v[1] ELSE ""

\* the "current" of a variable: <<>> when it has none
CurrentOf(var) == IF "current" \in DOMAIN var.v THEN <<var.v["current"]>> ELSE <<>>

Selection(selected, text, value) == <<Obj([selected |-> Bool(selected), text |-> Str(text), value |-> Str(value)])>>

\* the table of C22 for the stack of slug S: what the "current" of a datasource
\* variable becomes
Tabled(var, S) ==
  IF NameOf(var) \in {"PROMPRO", "P1EUW1"} THEN Selection("false", <<"grafanacloud-", S, "-prom">>, <<"grafanacloud-", S, "-prom">>)
  ELSE IF NameOf(var) = "LOGSPRO" THEN Selection("false", <<"grafanacloud-", S, "-logs">>, <<"grafanacloud-", S, "-logs">>)
  ELSE IF NameOf(var) = "LOGUSAGE" THEN Selection("false", <<"grafanacloud-", S, "-usage-insights">>, <<"grafanacloud-usage-insights">>)
  ELSE CurrentOf(var)

\* the uploaded document of upload u
UploadedDoc(u) == uploads[u].up.record.Dashboard

\* C22: in every document handed to UploadDashboard for the stack of slug S,
\* templating.list has the entries of the file's list, and every entry of type
\* "datasource" has the "current" the table gives for its name: PROMPRO and
\* P1EUW1 the metrics datasource of S, LOGSPRO the logs datasource of S,
\* LOGUSAGE the usage datasource of S as text and the fixed name as value,
\* all not selected; any other name what the file had, or none.
C22_DatasourceTable ==
  \A u \in Uploads : HasList(SourceOf(u)) =>
    /\ HasList(UploadedDoc(u)) /\ Len(ListOf(UploadedDoc(u))) = Len(ListOf(SourceOf(u)))
    /\ \A j \in VarsOfType(ListOf(SourceOf(u)), "datasource") :
         CurrentOf(ListOf(UploadedDoc(u))[j]) = Tabled(ListOf(SourceOf(u))[j], uploads[u].stack.Slug)

\* C22 witness: the second stack took a document whose list names the four
\* datasources of the table and another one that had a selection
C22_Witness ==
  \E u \in Uploads :
    /\ uploads[u].up.ok /\ uploads[u].stack.Slug = "b" /\ HasList(SourceOf(u))
    /\ {"PROMPRO", "P1EUW1", "LOGSPRO", "LOGUSAGE", "OTHER"} \subseteq {NameOf(ListOf(SourceOf(u))[j]) : j \in VarsOfType(ListOf(SourceOf(u)), "datasource")}
    /\ \E j \in VarsOfType(ListOf(SourceOf(u)), "datasource") : NameOf(ListOf(SourceOf(u))[j]) = "OTHER" /\ CurrentOf(ListOf(UploadedDoc(u))[j]) = <<OldCurrent>>

\* --------------------------------------- reading the stack identifier --
\* the inner document of entry x of the latest attempt
LastDash(x) == LastFile(x).body.v["dashboard"].v

\* the stack of the latest attempt
LastStack == attempts[Len(attempts)].stack

\* the client calls made for entry x of the latest attempt, the lookups among
\* them
CallsOf(x) == (last.files[x].from + 1)..last.files[x].to

Lookups(x) == {j \in CallsOf(x) : last.calls[j].op = "GetDataSource"}

\* the entries of the document's list that are the stack identifier variable
StackIDVars(dash) == IF HasList(dash) THEN {j \in VarsOfType(ListOf(dash), "custom") : NameOf(ListOf(dash)[j]) = "STACKID"} ELSE {}

\* the place of j among the numbers of S
Rank(S, j) == Cardinality({k \in S : k <= j})

\* the uploads the latest attempt made for entry x
LastUploadsOf(x) == {u \in Uploads : uploads[u].attempt = Len(attempts) /\ uploads[u].up.file = last.files[x].file}

\* entry v of the uploaded list carries that owner as selection, as its one
\* option and as query
CarriesOwner(var, owner) ==
  /\ CurrentOf(var) = Selection("false", owner, owner)
  /\ IsA(var.v, "options", "array") /\ var.v["options"].v = Selection("true", owner, owner)
  /\ IsA(var.v, "query", "string") /\ var.v["query"].v = owner

\* C23: for a ".json" file the only client calls are GetDataSource and, after
\* them, UploadDashboard.  Each lookup asks the stack of the attempt for
\* grafanacloud-<slug>-logs; there is one lookup per STACKID variable of type
\* "custom", in order, none for a document without such a variable; a failed
\* lookup is the last call for the file, the file and the attempt fail and
\* nothing is uploaded for the file; in what is uploaded each such variable
\* carries the owner its lookup returned as selection, single option and
\* query.
C23_StackIdentifierLookup ==
  \A x \in LastFiles : (LastFile(x).ext = ".json" /\ HasDocument(LastFile(x))) =>
    /\ \A j \in CallsOf(x) : last.calls[j].op \in {"GetDataSource", "UploadDashboard"}
    /\ \A j \in Lookups(x) :
         /\ last.calls[j].arg = <<<<"grafanacloud-", LastStack.Slug, "-logs">>>>
         /\ \A up \in UploadsOf(x) : j < up
         /\ ~last.calls[j].ok => (j = last.files[x].to /\ ~last.files[x].ok /\ UploadsOf(x) = {} /\ attempts[Len(attempts)].out = "error")
    /\ Cardinality(Lookups(x)) <= Cardinality(StackIDVars(LastDash(x)))
    /\ (\A j \in Lookups(x) : last.calls[j].ok) => Cardinality(Lookups(x)) = Cardinality(StackIDVars(LastDash(x)))
    /\ \A u \in LastUploadsOf(x) : \A v \in StackIDVars(LastDash(x)) : \A j \in Lookups(x) :
         Rank(StackIDVars(LastDash(x)), v) = Rank(Lookups(x), j) => CarriesOwner(ListOf(UploadedDoc(u))[v], last.calls[j].ret)

\* C23 witness: on the second stack the first attempt stopped at a failed
\* lookup, its one call for the file, and the retry looked the owner up twice
\* for a document with two such variables and uploaded it
C23_Witness ==
  /\ Len(attempts) >= 2 /\ LastStack.Slug = "b" /\ attempts[Len(attempts)].pass = "retry" /\ attempts[Len(attempts)].out = ""
  /\ \E k \in Attempts : attempts[k].pass = "first" /\ attempts[k].stack = LastStack /\ attempts[k].out = "error"
        /\ Len(attempts[k].files) = 1 /\ attempts[k].files[1].to = attempts[k].files[1].from + 1
  /\ \E x \in LastFiles : Cardinality(Lookups(x)) = 2 /\ Cardinality(LastUploadsOf(x)) = 1
        /\ \A u \in LastUploadsOf(x) : uploads[u].up.ok /\ \A v \in StackIDVars(LastDash(x)) : CarriesOwner(ListOf(UploadedDoc(u))[v], <<"user-", "b">>)

\* ---------------------------------------------------- reading the tags --
\* the tag list of a document, empty when it has none
TagList(dash) == IF IsA(dash, "tags", "array") THEN dash["tags"].v ELSE <<>>

\* the "tags" field of a document: <<>> when it has none
TagField(dash) == IF "tags" \in DOMAIN dash THEN <<dash["tags"]>> ELSE <<>>

\* the configured tags as JSON strings, in configuration order
ConfiguredTags == [j \in 1..Len(config.Tags[1]) |-> Str(<<config.Tags[1][j]>>)]

\* C24: when a tag list is configured, the "tags" of every document handed to
\* UploadDashboard is the tag list of the file's document (empty when it has
\* none) followed by every configured tag, in configuration order, repeated
\* tags included; when none is configured, "tags" is what the file had, or
\* absent as in the file.
C24_TagsAppended ==
  \A u \in Uploads :
    /\ config.Tags # <<>> => TagField(UploadedDoc(u)) = <<Arr(TagList(SourceOf(u)) \o ConfiguredTags)>>
    /\ config.Tags = <<>> => TagField(UploadedDoc(u)) = TagField(SourceOf(u))

\* C24 witness: a document tagged "old" and "tag1" was uploaded with the
\* configured "tag1", "old", "tag1" after them, five tags in all
C24_Witness ==
  \E u \in Uploads :
    /\ uploads[u].up.ok /\ config.Tags = <<<<"tag1", "old", "tag1">>>>
    /\ TagList(SourceOf(u)) = <<Str(<<"old">>), Str(<<"tag1">>)>>
    /\ Len(TagList(UploadedDoc(u))) = 5 /\ TagList(UploadedDoc(u))[5] = Str(<<"tag1">>)

\* ------------------------------------- reading the folder resolution ---
\* the EnsureFolder calls of the latest attempt
Ensures == {j \in 1..Len(last.calls) : last.calls[j].op = "EnsureFolder"}

\* the latest attempt has a session and resolved every folder it asked for
AllResolved == last.calls # <<>> /\ last.calls[1].ok /\ \A j \in Ensures : last.calls[j].ok

\* the folder names of the first m EnsureFolder calls, put together with "/"
RECURSIVE Joined(_)
Joined(m) == IF m = 0 THEN <<>> ELSE IF m = 1 THEN last.calls[2].arg[2] ELSE Joined(m - 1) \o <<"/">> \o last.calls[m + 1].arg[2]

\* C25: in every attempt that has a session the second client call is an
\* EnsureFolder with no parent, whatever earlier attempts resolved, and every
\* further EnsureFolder follows a successful one and has the folder that one
\* returned as parent.  When all succeed, the last one ensures the binding's
\* destination and the ones before it the segments of the root path in
\* order: none when no root path is configured.
C25_FoldersNestedFromRoot ==
  /\ (last.calls # <<>> /\ last.calls[1].ok) => (Len(last.calls) >= 2 /\ 2 \in Ensures)
  /\ \A j \in Ensures :
       /\ j >= 2
       /\ j = 2 => last.calls[j].arg[1] = <<>>
       /\ j > 2 => (j - 1 \in Ensures /\ last.calls[j - 1].ok /\ last.calls[j].arg[1] = last.calls[j - 1].ret[1].UID)
  /\ AllResolved =>
       /\ last.calls[Cardinality(Ensures) + 1].arg[2] = BindingOf(attempts[Len(attempts)]).GrafanaFolder
       /\ Joined(Cardinality(Ensures) - 1) = config.RootFolder
       /\ \A j \in Ensures : j <= Cardinality(Ensures) => "/" \notin Range(last.calls[j].arg[2])

\* C25 witness: the attempt of a second binding on a stack that holds the two
\* root folders "r" and "r" under it since the first binding: it asked for
\* both again, then for its own destination under the second
C25_Witness ==
  /\ AllResolved /\ attempts[Len(attempts)].b = 2 /\ config.RootFolder = <<"r", "/", "r">> /\ Cardinality(Ensures) = 3
  /\ last.calls[2].arg = <<<<>>, <<"r">>>> /\ last.calls[3].arg = <<<<"|", "r">>, <<"r">>>> /\ last.calls[4].arg = <<<<"|", "r", "|", "r">>, <<"Other">>>>
  /\ \E k \in Attempts : attempts[k].b = 1 /\ attempts[k].stack = LastStack /\ attempts[k].out = ""

\* ------------------------------------------- reading one EnsureFolder ---
\* the requests the latest attempt issued during its client call j
ReqsOf(j) == ((IF j = 1 THEN 0 ELSE last.calls[j - 1].upto) + 1)..last.calls[j].upto

\* the first of them: for an EnsureFolder, the lookup
Lookup(j) == last.reqs[(IF j = 1 THEN 0 ELSE last.calls[j - 1].upto) + 1]

\* the create requests among them
Creates(j) == {r \in ReqsOf(j) : last.reqs[r].op = "CreateFolder"}

\* the folders the stack of the latest attempt holds under that parent and title
Held(arg) == {f \in RemoteOf(LastStack).folders : f.parent = arg[1] /\ f.title = arg[2]}

\* C26: every EnsureFolder(parent, name) starts with a lookup in the parent
\* scope.  When the lookup shows a folder of that title, that folder is
\* returned and no create request is issued.  When it shows none, exactly one
\* create request is issued, under that parent and with that title, and when
\* the request succeeds the folder it created is returned.  When the lookup
\* or the create request fails, an error and no folder are returned.
C26_FetchOrCreate ==
  \A j \in Ensures :
    /\ ReqsOf(j) # {} /\ Lookup(j).op = "GetFolders" /\ Lookup(j).arg = <<last.calls[j].arg[1]>>
    /\ (Lookup(j).ok /\ Lookup(j).answer # {}) =>
         /\ Creates(j) = {} /\ last.calls[j].ok
         /\ \E f \in Lookup(j).answer : f.title = last.calls[j].arg[2] /\ last.calls[j].ret = FolderOf(f)
    /\ (Lookup(j).ok /\ Lookup(j).answer = {}) =>
         /\ Cardinality(Creates(j)) = 1
         /\ \A r \in Creates(j) : last.reqs[r].arg = last.calls[j].arg
         /\ \A r \in Creates(j) : last.reqs[r].ok => (last.calls[j].ok /\ \E f \in Held(last.calls[j].arg) : last.calls[j].ret = FolderOf(f))
    /\ ~Lookup(j).ok => (Creates(j) = {} /\ ~last.calls[j].ok /\ last.calls[j].ret = NilFolder)
    /\ \A r \in Creates(j) : ~last.reqs[r].ok => (~last.calls[j].ok /\ last.calls[j].ret = NilFolder)

\* ------------------------------------------------ reading the session --
LastCalls == 1..Len(last.calls)

\* the calls of the latest attempt to that client method
CallsTo(op) == {j \in LastCalls : last.calls[j].op = op}

\* C27: an attempt asks for a stack client once, first of all.  When it gets
\* one, Cleanup is called exactly once and is the last call of the attempt,
\* whether the attempt succeeded, failed at a folder or failed at a file; the
\* next attempt starts after it.  When it gets none, nothing else is called,
\* Cleanup included.
C27_SessionReleasedOnce ==
  last.calls # <<>> =>
    /\ CallsTo("NewStackClient") = {1}
    /\ last.calls[1].ok => CallsTo("Cleanup") = {Len(last.calls)} /\ Len(last.calls) >= 3
    /\ ~last.calls[1].ok => Len(last.calls) = 1

\* C27 witness: a retry whose upload failed, after a first attempt on the
\* stack that failed at its folder: stack client, folder, upload, Cleanup
C27_Witness ==
  /\ Len(attempts) >= 2 /\ attempts[Len(attempts)].pass = "retry" /\ attempts[Len(attempts)].out = "error"
  /\ \E k \in Attempts : attempts[k].pass = "first" /\ attempts[k].stack = LastStack /\ attempts[k].at = "folders"
  /\ [j \in LastCalls |-> last.calls[j].op] = <<"NewStackClient", "EnsureFolder", "UploadDashboard", "Cleanup">>
  /\ [j \in LastCalls |-> last.calls[j].ok] = <<TRUE, TRUE, FALSE, TRUE>>

\* call j of the latest attempt is a GetDashboard that the stack answered
\* with "no such dashboard"
NotFound(j) == last.calls[j].op = "GetDashboard" /\ ~last.reqs[last.calls[j].upto].fault

\* C28: whenever a client call of an attempt returns an error, the attempt
\* returns an error, unless the call is a GetDashboard for a dashboard the
\* stack does not hold.
C28_NoFailureDropped ==
  \A j \in LastCalls : (~last.calls[j].ok /\ ~NotFound(j)) => attempts[Len(attempts)].out = "error"

\* ---------------------------------------- reading the failed folders ----
\* the first-pass attempts that returned because a folder could not be ensured
FolderFailures == {k \in Attempts : attempts[k].pass = "first" /\ attempts[k].at = "folders"}

\* the retries of the stack of attempt k for its binding
RetriesOf(k) == {r \in Attempts : attempts[r].pass = "retry" /\ SameBinding(attempts[r], attempts[k]) /\ attempts[r].stack = attempts[k].stack}

Malformed(f) ==
  /\ ~f.dir /\ f.ext \in {".json", ".deleted"} /\ f.body.t = "object"
  /\ \/ ~NotNil(f.body.v, "dashboard")
     \/ f.ext = ".deleted" /\ HasDocument(f) /\ ~HasStringUID(f.body.v["dashboard"].v)

\* C30: when the walk of an attempt comes to a malformed file, the file
\* fails with no client call made for it, it is the last file the attempt
\* handles, the only call after it is Cleanup, the attempt returns an error,
\* and the dashboards uploaded for the files before it are on the stack.
C30_MalformedFileEndsWalk ==
  \A x \in LastFiles : Malformed(LastFile(x)) =>
    /\ ~last.files[x].ok /\ CallCount(x) = 0
    /\ x = Len(last.files)
    /\ CallsTo("Cleanup") = {last.files[x].to + 1} /\ Len(last.calls) = last.files[x].to + 1
    /\ attempts[Len(attempts)].out = "error"
    /\ \A j \in CallsTo("UploadDashboard") : last.calls[j].ok => HasDashboard(RemoteOf(LastStack), last.calls[j].arg[1])

\* C30 witness: an attempt uploaded "x", came to a ".deleted" file whose uid
\* is a number and stopped there: the dashboard "p" that the next file marks
\* for deletion is still on the stack, "x" is on it
C30_Witness ==
  /\ Len(last.files) = 2 /\ last.files[1].ok /\ Malformed(LastFile(2)) /\ LastFile(2).ext = ".deleted"
  /\ HasDocument(LastFile(2)) /\ IsA(LastDash(2), "uid", "number")
  /\ Len(env.fs[BindingOf(attempts[Len(attempts)]).LocalFolder].files) = 4
  /\ HasDashboard(RemoteOf(LastStack), <<"x">>) /\ HasDashboard(RemoteOf(LastStack), <<"p">>)
  /\ \A j \in 1..Len(last.reqs) : last.reqs[j].ok

\* ------------------------------------- reading the odd-shaped documents --
\* the document of file f has a "templating" object without a "list" array
NoList(f) ==
  /\ HasDocument(f) /\ f.body.v["dashboard"].t = "object"
  /\ IsA(f.body.v["dashboard"].v, "templating", "object")
  /\ ~IsA(f.body.v["dashboard"].v["templating"].v, "list", "array")

\* C31: no attempt ends abnormally: each returns nil or an error, and a
\* ".json" file whose document has a "templating" object without a "list"
\* array is uploaded with its "templating" as in the file or fails with an
\* error.
C31_OddShapesAreErrors ==
  /\ pc # "panic"
  /\ \A k \in Attempts : attempts[k].out # "panic"
  /\ \A x \in LastFiles : (LastFile(x).ext = ".json" /\ NoList(LastFile(x))) =>
       \/ ~last.files[x].ok /\ attempts[Len(attempts)].out = "error"
       \/ \E u \in Uploads : /\ uploads[u].attempt = Len(attempts) /\ uploads[u].up.file = LastFile(x).name
                              /\ UploadedDoc(u)["templating"] = LastDash(x)["templating"]

\* ------------------------------------- reading the unmatched custom stack --
\* all-stacks mode, the targets are chosen, and no enumerated stack that is
\* not excluded carries the configured custom stack name
Unmatched == syncAllStacks /\ Selected /\ ~\E S \in Enumerated : S.Slug \notin Excluded /\ S.Slug = config.CustomStack

\* the custom bindings with both paths whose local folder exists
Attemptable == {c \in 1..Len(config.CustomDashboards) :
                  /\ config.CustomDashboards[c].LocalFolder # "" /\ config.CustomDashboards[c].GrafanaFolder # <<>>
                  /\ config.CustomDashboards[c].LocalFolder \in DOMAIN env.fs /\ env.fs[config.CustomDashboards[c].LocalFolder].stat = "ok"}

\* the attempts on the zero-value stack for custom binding c
OnZero(c) == {k \in Attempts : attempts[k].phase = "custom" /\ attempts[k].b = c /\ attempts[k].stack = ZeroStack}

FirstAttemptable == CHOOSE c \in Attemptable : \A d \in Attemptable : c <= d

MarkedUIDs ==
  {f.body.v["dashboard"].v["uid"].v : f \in {g \in UNION {Range(env.fs[d].files) : d \in DOMAIN env.fs} :
                                              ~g.dir /\ g.ext = ".deleted" /\ HasDocument(g) /\ HasStringUID(g.body.v["dashboard"].v)}}

\* upload u succeeded and no later upload to its stack under its uid did
Latest(u) ==
  /\ uploads[u].up.ok
  /\ ~\E w \in Uploads : w > u /\ uploads[w].up.ok /\ uploads[w].stack = uploads[u].stack /\ UploadedUID(w) = UploadedUID(u)

\* C33: when Publish has returned the error of a failed retry, that retry is
\* the last attempt of the run and the only retry that failed; after the file
\* it failed at, it made no call but Cleanup; every dashboard the run uploaded
\* that no ".deleted" file names is on its stack, in the folder of its latest
\* upload; and a dashboard the failing attempt deleted and did not upload
\* again is not on the stack.
C33_NoCompensation ==
  (pc = "done" /\ result.kind = "error" /\ RetryFailures # {}) =>
    /\ RetryFailures = {Len(attempts)}
    /\ (last.files # <<>> /\ ~last.files[Len(last.files)].ok) =>
         \A j \in LastCalls : j > last.files[Len(last.files)].to => last.calls[j].op = "Cleanup"
    /\ \A u \in Uploads : (Latest(u) /\ UploadedUID(u) \notin MarkedUIDs) =>
         [uid |-> UploadedUID(u), folder |-> uploads[u].up.record.FolderUID] \in remote[uploads[u].stack.Slug].dashboards
    /\ \A j \in CallsTo("DeleteDashboard") :
         (last.calls[j].ok /\ ~\E l \in CallsTo("UploadDashboard") : l > j /\ last.calls[l].ok /\ last.calls[l].arg = last.calls[j].arg) =>
           ~HasDashboard(RemoteOf(LastStack), last.calls[j].arg[1])

\* C33 witness: Publish has returned the error of a retry that uploaded a
\* document before the file it failed at, after an upload to another stack
C33_Witness ==
  /\ pc = "done" /\ result.kind = "error" /\ RetryFailures = {Len(attempts)}
  /\ \E u \in Uploads : uploads[u].attempt = Len(attempts) /\ Latest(u)
  /\ \E u \in Uploads : uploads[u].stack # LastStack /\ Latest(u) /\ HasDashboard(remote[uploads[u].stack.Slug], UploadedUID(u))

\* ------------------------------------------- reading the second call ----
\* the folders and the dashboards (identifier and folder) of every stack
Holdings(rem) == [slug \in DOMAIN rem |-> [folders |-> rem[slug].folders, dashboards |-> rem[slug].dashboards]]

\* the identifiers the first call uploaded to the stack
UploadedBefore(stack) == {earlier[1].uploads[w].up.record.UID : w \in {v \in 1..Len(earlier[1].uploads) : earlier[1].uploads[v].up.ok /\ earlier[1].uploads[v].stack = stack}}

\* C34: in a second Publish call with the same configuration and files, made
\* after the first returned nil, no create-folder request is issued, every
\* upload is under an identifier the first call uploaded to that stack, and
\* when the second call has returned nil every stack holds the folders and
\* the dashboards (identifier and folder) it held after the first.
C34_SecondCallChangesNothing ==
  earlier # <<>> =>
    /\ \A j \in 1..Len(last.reqs) : last.reqs[j].op # "CreateFolder"
    /\ \A u \in Uploads : UploadedUID(u) \in UploadedBefore(uploads[u].stack)
    /\ (pc = "done" /\ result.kind = "nil") => Holdings(remote) = Holdings(earlier[1].remote)

\* ------------------------------------------- reading the other fields ----
\* the fields of the document the transformer may change
Touched == {"folderId", "folderUid", "id", "uid", "tags"}

\* a map without the fields of that set
Without(map, keys) == [k \in DOMAIN map \ keys |-> map[k]]

\* a variable the transformer knows: a datasource of the table, the stack
\* identifier
Recognized(var) ==
  /\ var.t = "object"
  /\ \/ IsWord(var.v, "type", "datasource") /\ NameOf(var) \in {"PROMPRO", "P1EUW1", "LOGSPRO", "LOGUSAGE"}
     \/ IsWord(var.v, "type", "custom") /\ NameOf(var) = "STACKID"

\* entry j of the uploaded list is the file's, but for "current", "options" and
\* "query" when the variable is recognized
SameVariable(old, new) ==
  IF Recognized(old) THEN new.t = "object" /\ Without(new.v, {"current", "options", "query"}) = Without(old.v, {"current", "options", "query"})
  ELSE new = old

\* C35: every document handed to UploadDashboard has, outside folderId,
\* folderUid, id, uid, tags and templating, the fields of the file's document
\* with their values; its templating is the file's when that has no list, and
\* otherwise has the file's fields beside the list and a list of the same
\* variables, each as in the file but, for a recognized one, for its "current",
\* "options" and "query".
C35_OtherFieldsAsRead ==
  \A u \in Uploads :
    /\ Without(UploadedDoc(u), Touched \cup {"templating"}) = Without(SourceOf(u), Touched \cup {"templating"})
    /\ ("templating" \in DOMAIN UploadedDoc(u)) = ("templating" \in DOMAIN SourceOf(u))
    /\ ("templating" \in DOMAIN SourceOf(u) /\ ~HasList(SourceOf(u))) => UploadedDoc(u)["templating"] = SourceOf(u)["templating"]
    /\ HasList(SourceOf(u)) =>
         /\ HasList(UploadedDoc(u))
         /\ Without(UploadedDoc(u)["templating"].v, {"list"}) = Without(SourceOf(u)["templating"].v, {"list"})
         /\ Len(ListOf(UploadedDoc(u))) = Len(ListOf(SourceOf(u)))
         /\ \A j \in 1..Len(ListOf(SourceOf(u))) : SameVariable(ListOf(SourceOf(u))[j], ListOf(UploadedDoc(u))[j])

\* C35 witness: a document with panels, a version, a switch beside its list,
\* a variable the transformer does not know and recognized ones with a label
\* was uploaded under a suffixed uid with a configured tag, its numeric id and
\* folderId gone and the selection of a recognized variable replaced
C35_Witness ==
  \E u \in Uploads :
    /\ uploads[u].up.ok /\ {"panels", "version", "id", "folderId"} \subseteq DOMAIN SourceOf(u)
    /\ {"panels", "version"} \subseteq DOMAIN UploadedDoc(u) /\ DOMAIN UploadedDoc(u) \cap {"id", "folderId"} = {}
    /\ UploadedUID(u) # SourceOf(u)["uid"].v /\ UploadedDoc(u)["tags"] # SourceOf(u)["tags"]
    /\ HasList(SourceOf(u)) /\ "enable" \in DOMAIN UploadedDoc(u)["templating"].v
    /\ \E j, l \in 1..Len(ListOf(SourceOf(u))) :
         /\ Recognized(ListOf(SourceOf(u))[j]) /\ ListOf(UploadedDoc(u))[j] # ListOf(SourceOf(u))[j]
         /\ ListOf(UploadedDoc(u))[j].v["label"] = Str(<<"L">>)
         /\ ~Recognized(ListOf(SourceOf(u))[l]) /\ "current" \in DOMAIN ListOf(SourceOf(u))[l].v

\* ------------------------------------------- reading the binding order ---
\* x (an attempt or a step) is of a binding that comes before the binding of
\* y in a Publish run: custom before common, then in configuration order
Sooner(x, y) == (x.phase = "custom" /\ y.phase = "common") \/ (x.phase = y.phase /\ x.b < y.b)

\* the attempts of the binding of x
OfBinding(x) == {k \in Attempts : SameBinding(attempts[k], x)}

\* C36: the attempts and the Stat calls of a run come binding by binding,
\* the custom bindings first, each class in configuration order, and within a
\* binding the first pass before the retry pass; when a binding is started,
\* every failed first-pass attempt of the bindings before it has had its
\* retry and none of these failed; and when Publish has returned the error of
\* a custom binding's retry, no common binding was looked at or attempted.
C36_CustomBeforeCommon ==
  /\ \A k, l \in Attempts : k < l =>
       \/ Sooner(attempts[k], attempts[l])
       \/ SameBinding(attempts[k], attempts[l]) /\ (attempts[k].pass = "retry" => attempts[l].pass = "retry")
  /\ \A j, l \in Steps : (j < l /\ steps[j].op = "Stat" /\ steps[l].op = "Stat") => Sooner(steps[j], steps[l])
  /\ \A j \in Steps : steps[j].op = "Stat" => \A k \in Attempts : Sooner(attempts[k], steps[j]) =>
       /\ k \notin RetryFailures
       /\ Cardinality({r \in OfBinding(attempts[k]) : attempts[r].pass = "retry"})
            = Cardinality({f \in OfBinding(attempts[k]) : attempts[f].pass = "first" /\ attempts[f].out = "error"})
  /\ (pc = "done" /\ \E k \in RetryFailures : attempts[k].phase = "custom") =>
       /\ result.kind = "error"
       /\ \A k \in Attempts : attempts[k].phase = "custom"
       /\ \A j \in Steps : steps[j].phase = "custom"

\* C36 witness: Publish has returned the error of the retry of the second
\* custom binding, after the first custom binding had a failed attempt retried
\* with success; a common binding whose folder exists is configured and was
\* not attempted
C36_Witness ==
  /\ pc = "done" /\ result.kind = "error"
  /\ \E k \in RetryFailures : attempts[k].phase = "custom" /\ attempts[k].b = 2
  /\ \E f, r \in Attempts : /\ attempts[f].phase = "custom" /\ attempts[f].b = 1 /\ attempts[f].out = "error"
                           /\ SameBinding(attempts[r], attempts[f]) /\ attempts[r].pass = "retry" /\ attempts[r].out = ""
  /\ \E c \in 1..Len(config.CommonDashboards) : ~Missing(config.CommonDashboards[c].LocalFolder) /\ config.CommonDashboards[c].LocalFolder # ""
  /\ stacksWithCommonDashboards # <<>>

\* --------------------------------------------- reading the call order ---
\* the client calls made for the files of a walk
FileCalls == {"GetDataSource", "UploadDashboard", "GetDashboard", "DeleteDashboard"}

\* C37: in every attempt the stack client is asked for first and the service
\* account request is the first request; every EnsureFolder comes after
\* successful calls for the stack client and folders only; every call for a
\* file comes after the last EnsureFolder, which succeeded and resolved the
\* binding's destination, and before Cleanup, the last call, whose request is
\* the last request; every DeleteDashboard directly follows a successful
\* GetDashboard of the same uid; and the lookups of a file come before its
\* upload.
C37_CallsInOrder ==
  last.calls # <<>> =>
    /\ CallsTo("NewStackClient") = {1} /\ last.reqs[1].op = "CreateServiceAccount"
    /\ \A j \in LastCalls : \A r \in ReqsOf(j) : last.reqs[r].op = "CreateServiceAccount" => j = 1 /\ r = 1
    /\ \A j \in Ensures : \A l \in 1..(j - 1) : last.calls[l].op \in {"NewStackClient", "EnsureFolder"} /\ last.calls[l].ok
    /\ \A j \in LastCalls : last.calls[j].op \in FileCalls =>
         /\ last.calls[1].ok
         /\ \A e \in Ensures : e < j /\ last.calls[e].ok
         /\ \E e \in Ensures : /\ \A l \in Ensures : l <= e
                               /\ last.calls[e].arg[2] = BindingOf(attempts[Len(attempts)]).GrafanaFolder
         /\ Cardinality(Ensures) = (IF config.RootFolder = <<>> THEN 0 ELSE Len(Split(config.RootFolder))) + 1
         /\ j < Len(last.calls) /\ CallsTo("Cleanup") = {Len(last.calls)}
         /\ last.reqs[Len(last.reqs)].op = "DeleteServiceAccount" /\ Len(last.reqs) \in ReqsOf(Len(last.calls))
    /\ \A j \in CallsTo("DeleteDashboard") :
         last.calls[j - 1].op = "GetDashboard" /\ last.calls[j - 1].ok /\ last.calls[j - 1].arg = last.calls[j].arg
    /\ \A x \in LastFiles : \A j \in UploadsOf(x) : \A l \in Lookups(x) : l < j

\* C37 witness: an attempt under a root folder that found a dashboard,
\* deleted it and uploaded the next file: stack client, the two folders, the
\* calls for the files, Cleanup, all successful
C37_Witness ==
  /\ last.calls # <<>> /\ config.RootFolder # <<>>
  /\ [j \in LastCalls |-> last.calls[j].op] = <<"NewStackClient", "EnsureFolder", "EnsureFolder", "GetDashboard", "DeleteDashboard", "UploadDashboard", "Cleanup">>
  /\ \A j \in LastCalls : last.calls[j].ok

\* ----------------------------------------- reading the service accounts --
\* the requests of the latest attempt of that kind that succeeded
Served(op) == {r \in 1..Len(last.reqs) : last.reqs[r].op = op /\ last.reqs[r].ok}

\* C38: when the stack client of an attempt could not be made, every service
\* account the attempt created has been deleted by it; and when Publish has
\* returned, no stack holds a service account.
C38_NoAccountLeft ==
  /\ (last.calls # <<>> /\ ~last.calls[1].ok) => Cardinality(Served("CreateServiceAccount")) = Cardinality(Served("DeleteServiceAccount"))
  /\ pc = "done" => \A slug \in DOMAIN remote : remote[slug].sa = 0

\* ----------------------------------------- reading the create requests ---
\* the create-folder requests issued to the stack of that slug for a folder
\* of that title under that parent
AskedFor(slug, parent, title) == {r \in 1..Len(remote[slug].asked) : remote[slug].asked[r].parent = parent /\ remote[slug].asked[r].title = title}

\* the (parent, title) pairs of the create-folder requests issued to the stack
Pairs(slug) == {<<remote[slug].asked[r].parent, remote[slug].asked[r].title>> : r \in 1..Len(remote[slug].asked)}

Shown(j) == {r \in ReqsOf(j) : last.reqs[r].op = "GetFolders" /\ last.reqs[r].ok /\ last.reqs[r].answer # {} /\ \E c \in Creates(j) : c < r}

====
